---- MODULE Spec2Model ----
(***************************************************************************)
(* The persistence layer of activitypds-server: the SimpleKV row store     *)
(* (stores/simple-kv.ts) and the OAuthStore adapters built on it           *)
(* (stores/oauth.ts).                                                      *)
(*                                                                         *)
(* Strings are sequences of atoms: an atom is a TLA+ string standing for   *)
(* one character or for one colon-free word, ":" is the colon.  A key      *)
(* `${type}:${key}` is <<type, ":">> \o key.  The SQL NULL, the JS null    *)
(* and the empty string are all <<>> (each of them is falsy in the source  *)
(* conditions that read them).  An optional result (row | undefined,       *)
(* T | null) is a set with at most one element: {} is null.                *)
(***************************************************************************)
EXTENDS Integers, Sequences, FiniteSets, TLC

VARIABLES store, accounts, tasks, last, nops

vars == <<store, accounts, tasks, last, nops>>

(* ------------------------------ bounds -------------------------------- *)

MaxOps == 5
MaxRequestOps == 4
MaxKVOps == 4
MaxDeviceOps == 4
MaxTime == 2

(* ------------------------------ strings ------------------------------- *)

Colon == ":"

Digits == <<"0", "1", "2", "3", "4", "5", "6", "7", "8", "9">>

DigitSet == {Digits[i] : i \in 1..10}

DigitVal(c) == (CHOOSE i \in 1..10 : Digits[i] = c) - 1

\* Byte order of the characters that occur in the expiresAt column.
CharOrd(c) == IF c \in DigitSet THEN DigitVal(c) ELSE 10

RECURSIVE StrLess(_, _)
\* SQLite's BINARY collation on two TEXT values: memcmp, then length.
StrLess(a, b) ==
  IF b = <<>> THEN FALSE
  ELSE IF a = <<>> THEN TRUE
  ELSE IF CharOrd(Head(a)) # CharOrd(Head(b)) THEN CharOrd(Head(a)) < CharOrd(Head(b))
  ELSE StrLess(Tail(a), Tail(b))

StartsWith(s, p) == Len(s) >= Len(p) /\ SubSeq(s, 1, Len(p)) = p

\* value LIKE '%p%'
Contains(s, p) ==
  \E i \in 1..(Len(s) + 1) : i + Len(p) - 1 <= Len(s) /\ SubSeq(s, i, i + Len(p) - 1) = p

ColonAt(s) == {i \in 1..Len(s) : s[i] = Colon}

Undefined == <<"undefined">>

\* s.split(":", 2)[1]: the piece between the first and the second colon.
SplitSecond(s) ==
  IF ColonAt(s) = {} THEN Undefined
  ELSE LET i == CHOOSE x \in ColonAt(s) : \A y \in ColonAt(s) : x <= y
           rest == {y \in ColonAt(s) : y > i}
           j == IF rest = {} THEN Len(s) + 1
                ELSE CHOOSE x \in rest : \A y \in rest : x <= y
       IN SubSeq(s, i + 1, j - 1)

(* ------------------------------ db/cast.ts ---------------------------- *)

DateTag == "@Date"

\* A JS Date at time t (0 <= t <= 99): a value that is not a string.
DateOf(t) == <<DateTag, Digits[(t \div 10) + 1], Digits[(t % 10) + 1]>>

IsDate(v) == Len(v) >= 1 /\ v[1] = DateTag

TimeOf(d) == 10 * DigitVal(d[2]) + DigitVal(d[3])

\* Date.toISOString(): fixed width, the year zero-padded (years 0000-9999).
toDateISO(date) == <<date[2], date[3], "Z">>

fromDateISO(dateStr) == <<DateTag, dateStr[1], dateStr[2]>>

isoDateRegex(s) == Len(s) = 3 /\ s[1] \in DigitSet /\ s[2] \in DigitSet /\ s[3] = "Z"

\* An Encodable is [obj |-> record of leaves] or [arr |-> sequence of leaves];
\* a leaf is a string or a Date.
Obj(rec) == [obj |-> rec]

Arr(seq) == [arr |-> seq]

IsArr(v) == "arr" \in DOMAIN v

EncodeLeaf(v) == IF IsDate(v) THEN toDateISO(v) ELSE v

DecodeLeaf(v) == IF isoDateRegex(v) THEN fromDateISO(v) ELSE v

\* The column value: a JSON text, or the plain text of a single-valued mapping.
Text(s) == [kind |-> "text", text |-> s]

toJson(value) ==
  [kind |-> "json",
   json |-> IF IsArr(value)
            THEN Arr([i \in DOMAIN value.arr |-> EncodeLeaf(value.arr[i])])
            ELSE Obj([f \in DOMAIN value.obj |-> EncodeLeaf(value.obj[f])])]

fromJson(jsonStr) ==
  IF IsArr(jsonStr.json)
  THEN Arr([i \in DOMAIN jsonStr.json.arr |-> DecodeLeaf(jsonStr.json.arr[i])])
  ELSE Obj([f \in DOMAIN jsonStr.json.obj |-> DecodeLeaf(jsonStr.json.obj[f])])

\* Variant: the source replaces the object.
mergeReplace(object, source) == source

\* lodash merge on flat objects: the source's own fields override.
merge(object, source) ==
  [f \in (DOMAIN object) \cup (DOMAIN source) |->
     IF f \in DOMAIN source THEN source[f] ELSE object[f]]

\* obj[f], undefined read as null.
Field(rec, f) == IF f \in DOMAIN rec THEN rec[f] ELSE <<>>

(* --------------------------- simple-kv.ts ----------------------------- *)

\* `mapping_${type}_to_${this.type}`
MappingType(thisType, type) == <<"mapping_", type, "_to_", thisType>>

\* type LIKE 'mapping_%'
IsMappingType(t) == Len(t) >= 1 /\ t[1] = "mapping_"

PrefixKey(type, key) == <<type, Colon>> \o key

\* key ? `${type}:${key}` : type
MappingKey(type, key) == IF key # <<>> THEN PrefixKey(type, key) ELSE <<type>>

recordToRow(thisType, key, value, expiresAt) ==
  [key |-> key,
   type |-> <<thisType>>,
   value |-> toJson(value),
   expiresAt |-> IF expiresAt # <<>> THEN toDateISO(expiresAt) ELSE <<>>]

rowToRecord(row) ==
  [key |-> SplitSecond(row.key),
   type |-> row.type,
   value |-> row.value,
   expiresAt |-> IF row.expiresAt # <<>> THEN fromDateISO(row.expiresAt) ELSE <<>>]

\* Queries.  A select returns the set of matching rows; a write returns the
\* table after it; a DELETE ... RETURNING returns both.
getQuery(S, key) == {r \in S : r.key = key}

\* Variant: WHERE key = 'type:value' in place of the two LIKE patterns.
getLikeQueryByKey(S, type, value) ==
  {r \in S : r.key = <<type, Colon>> \o value}

getLikeQuery(S, type, value) ==
  {r \in S : /\ StartsWith(r.key, <<type, Colon>>)
             /\ r.value.kind = "text"
             /\ Contains(r.value.text, value)}

\* Variant: INSERT OR IGNORE, an existing row with the key is kept.
UpsertIgnore(S, row) ==
  IF \E r \in S : r.key = row.key THEN S ELSE S \cup {row}

\* INSERT OR REPLACE on the primary key
Upsert(S, row) == {r \in S : r.key # row.key} \cup {row}

putQuery(S, thisType, key, value, expiresAt) ==
  Upsert(S, recordToRow(thisType, PrefixKey(thisType, key), value, expiresAt))

putMappingQuery(S, thisType, type, key, value) ==
  Upsert(S, [key |-> PrefixKey(type, key),
             type |-> MappingType(thisType, type),
             value |-> value,
             expiresAt |-> <<>>])

\* Variant: the delete by value matches no row.
removeMappingByValueQueryNone(S, value) == S

removeMappingByValueQuery(S, value) ==
  {r \in S : ~(/\ r.value.kind = "text"
               /\ r.value.text = value
               /\ IsMappingType(r.type))}

\* Variant: the rows are returned without being deleted.
removeQueryKeep(S, key) ==
  [s |-> S, rows |-> {r \in S : r.key = key}]

\* Variant: DELETE ... WHERE key LIKE 'key%'.
removeQueryLike(S, key) ==
  [s |-> {r \in S : ~StartsWith(r.key, key)}, rows |-> {r \in S : StartsWith(r.key, key)}]

removeQuery(S, key) ==
  [s |-> {r \in S : r.key # key}, rows |-> {r \in S : r.key = key}]

\* Variant: "<=" in place of "<".
removeExpiredQueryInclusive(S, expiry) ==
  {r \in S : ~(r.expiresAt # <<>> /\ (\/ StrLess(r.expiresAt, toDateISO(expiry))
                                       \/ r.expiresAt = toDateISO(expiry)))}

removeExpiredQuery(S, expiry) ==
  {r \in S : ~(r.expiresAt # <<>> /\ StrLess(r.expiresAt, toDateISO(expiry)))}


\* Internal methods.  Each returns [s |-> the table afterwards, r |-> result].
TheOne(set) == CHOOSE x \in set : TRUE

getInternal(S, key) == {rowToRecord(row) : row \in getQuery(S, key)}

\* multi ? fromJson(row.value) : row.value
\* (a JSON text read as a plain string is some non-empty string)
MappingResult(multi, row) ==
  IF multi THEN fromJson(row.value).arr
  ELSE IF row.value.kind = "text" THEN row.value.text ELSE <<"@json">>

getMappingInternal(S, multi, type, key) ==
  {MappingResult(multi, row) : row \in getQuery(S, MappingKey(type, key))}

putInternal(S, thisType, key, value, expiresAt) ==
  putQuery(S, thisType, key, value, expiresAt)

\* Array.isArray(target) ? toJson(target) : target
putMappingInternal(S, thisType, type, key, target) ==
  putMappingQuery(S, thisType, type, key,
                  IF IsArr(target) THEN toJson(target) ELSE target)

removeMappingInternal(S, multi, type, key) ==
  LET q == removeQuery(S, MappingKey(type, key))
  IN [s |-> q.s, r |-> {MappingResult(multi, row) : row \in q.rows}]

RemoveKey(thisType, key, addPrefix) ==
  IF addPrefix THEN PrefixKey(thisType, key) ELSE key

\* removeInternal is two queries; handlers that other calls can interleave
\* with take them as two steps (removeQuery, then removeMappingByValueQuery).
removeInternal(S, thisType, key, addPrefix) ==
  LET q == removeQuery(S, RemoveKey(thisType, key, addPrefix))
  IN IF q.rows = {} THEN [s |-> q.s, r |-> {}]
     ELSE [s |-> removeMappingByValueQuery(q.s, RemoveKey(thisType, key, addPrefix)),
           r |-> {rowToRecord(row) : row \in q.rows}]

removeExpiredInternal(S, expiry) == removeExpiredQuery(S, expiry)

(* ----------------------------- oauth.ts ------------------------------- *)

TOKENS == "tokens"
REQUESTS == "authorization_request"
DEVICES == "devices"
ACCOUNT_DEVICES == "account_devices"
AUTHORIZED_CLIENTS == "authorized_clients"

DID_WEB_PREFIX == <<"did", Colon, "web", Colon>>

subToHandle(sub) ==
  IF StartsWith(sub, DID_WEB_PREFIX)
  THEN SubSeq(sub, Len(DID_WEB_PREFIX) + 1, Len(sub))
  ELSE sub

toAccount(handle) ==
  [sub |-> DID_WEB_PREFIX \o handle, preferred_username |-> handle]

RECURSIVE FilterOutFirst(_, _)
\* Variant: only the first occurrence of x is dropped.
FilterOutFirst(list, x) ==
  IF list = <<>> THEN <<>>
  ELSE IF Head(list) = x THEN Tail(list)
  ELSE <<Head(list)>> \o FilterOutFirst(Tail(list), x)

RECURSIVE FilterOut(_, _)
\* list.filter((id) => id !== x)
FilterOut(list, x) ==
  IF list = <<>> THEN <<>>
  ELSE IF Head(list) = x THEN FilterOut(Tail(list), x)
  ELSE <<Head(list)>> \o FilterOut(Tail(list), x)

SeqSet(list) == {list[i] : i \in DOMAIN list}

\* A call in flight: op, pc (the query it issues next, "done" when it has
\* returned), a (arguments), l (locals), res (result), err (it raised).
Idle == [op |-> "idle", pc |-> "done"]

Finish(t, res) == [t EXCEPT !.pc = "done", !.res = res]

Raise(t) == [t EXCEPT !.pc = "done", !.err = TRUE]

Goto(t, pc) == [t EXCEPT !.pc = pc]


\* Variant: the list is written back without the id.
AppendedNothing(existing, id) ==
  IF existing # {} THEN Arr(TheOne(existing)) ELSE Arr(<<>>)

\* The multi-valued list a handler writes back: tokens ? tokens.concat([id]) : [id]
Appended(existing, id) ==
  IF existing # {} THEN Arr(TheOne(existing) \o <<id>>) ELSE Arr(<<id>>)

(* TokenStore *)

createTokenCall(tokenId, data, refreshToken) ==
  [op |-> "createToken", pc |-> "put",
   a |-> [tokenId |-> tokenId, data |-> data, refreshToken |-> refreshToken],
   l |-> [tokens |-> {}], res |-> {}, err |-> FALSE]

createTokenAfterAccount(t) ==
  IF Field(t.a.data, "deviceId") # <<>> THEN Goto(t, "putTokenDevice")
  ELSE IF t.a.refreshToken # <<>> THEN Goto(t, "putRefresh")
  ELSE IF Field(t.a.data, "code") # <<>> THEN Goto(t, "putCode")
  ELSE Finish(t, {})

createTokenAfterDevice(t) ==
  IF t.a.refreshToken # <<>> THEN Goto(t, "putRefresh")
  ELSE IF Field(t.a.data, "code") # <<>> THEN Goto(t, "putCode")
  ELSE Finish(t, {})

createTokenStep(t, S) ==
  CASE t.pc = "put" ->
         [t |-> Goto(t, "getAccountTokens"),
          s |-> putInternal(S, TOKENS, t.a.tokenId, Obj(t.a.data), <<>>)]
    [] t.pc = "getAccountTokens" ->
         [t |-> [t EXCEPT !.pc = "putAccountTokens",
                          !.l.tokens = getMappingInternal(S, TRUE, "account_tokens", t.a.data.sub)],
          s |-> S]
    [] t.pc = "putAccountTokens" ->
         [t |-> createTokenAfterAccount(t),
          s |-> putMappingInternal(S, TOKENS, "account_tokens", t.a.data.sub,
                                   Appended(t.l.tokens, t.a.tokenId))]
    [] t.pc = "putTokenDevice" ->
         [t |-> Goto(t, "getDeviceTokens"),
          s |-> putMappingInternal(S, TOKENS, "token_device", t.a.tokenId,
                                   Text(t.a.data.deviceId))]
    [] t.pc = "getDeviceTokens" ->
         [t |-> [t EXCEPT !.pc = "putDeviceTokens",
                          !.l.tokens = getMappingInternal(S, TRUE, "device_tokens", t.a.data.deviceId)],
          s |-> S]
    [] t.pc = "putDeviceTokens" ->
         [t |-> createTokenAfterDevice(t),
          s |-> putMappingInternal(S, TOKENS, "device_tokens", t.a.data.deviceId,
                                   Appended(t.l.tokens, t.a.tokenId))]
    [] t.pc = "putRefresh" ->
         [t |-> IF Field(t.a.data, "code") # <<>> THEN Goto(t, "putCode") ELSE Finish(t, {}),
          s |-> putMappingInternal(S, TOKENS, "refresh_token", t.a.refreshToken,
                                   Text(t.a.tokenId))]
    [] t.pc = "putCode" ->
         [t |-> Finish(t, {}),
          s |-> putMappingInternal(S, TOKENS, "authorization_code", t.a.data.code,
                                   Text(t.a.tokenId))]

deleteTokenCall(tokenId) ==
  [op |-> "deleteToken", pc |-> "get",
   a |-> [tokenId |-> tokenId],
   l |-> [token |-> [sub |-> <<>>], refreshTokens |-> {}, cur |-> <<>>, tokens |-> {}],
   res |-> {}, err |-> FALSE]

deleteTokenAfterAccount(t) ==
  IF Field(t.l.token, "deviceId") # <<>> THEN Goto(t, "getDeviceTokens")
  ELSE Goto(t, "removeTokenDevice")

\* Promise.all(refreshTokens.map((token) => this.tokens.remove(token.key, false))):
\* the removals are taken one key after the other.
deleteTokenNextRefresh(t, keys) ==
  IF keys = {} THEN [t EXCEPT !.pc = "getAccountTokens", !.l.refreshTokens = {}]
  ELSE [t EXCEPT !.pc = "removeRefresh", !.l.refreshTokens = keys]

deleteTokenStep(t, S) ==
  CASE t.pc = "get" ->
         LET tokenData == getInternal(S, PrefixKey(TOKENS, t.a.tokenId))
         IN IF tokenData = {} THEN [t |-> Finish(t, {}), s |-> S]
            ELSE LET token == fromJson(TheOne(tokenData).value).obj
                 IN [t |-> [t EXCEPT !.l.token = token,
                                     !.pc = IF Field(token, "code") # <<>>
                                            THEN "removeCode" ELSE "remove"],
                     s |-> S]
    [] t.pc = "removeCode" ->
         [t |-> Goto(t, "remove"),
          s |-> removeMappingInternal(S, FALSE, "authorization_code", t.l.token.code).s]
    [] t.pc = "remove" ->
         LET q == removeQuery(S, PrefixKey(TOKENS, t.a.tokenId))
         IN [t |-> Goto(t, IF q.rows = {} THEN "like" ELSE "cascade"), s |-> q.s]
    [] t.pc = "cascade" ->
         [t |-> Goto(t, "like"),
          s |-> removeMappingByValueQuery(S, PrefixKey(TOKENS, t.a.tokenId))]
    [] t.pc = "like" ->
         [t |-> deleteTokenNextRefresh(
                  t, {r.key : r \in getLikeQuery(S, "refresh_token", t.a.tokenId)}),
          s |-> S]
    [] t.pc = "removeRefresh" ->
         LET k == CHOOSE x \in t.l.refreshTokens : TRUE
             q == removeQuery(S, k)
         IN [t |-> IF q.rows = {}
                   THEN deleteTokenNextRefresh(t, t.l.refreshTokens \ {k})
                   ELSE [t EXCEPT !.pc = "cascadeRefresh", !.l.cur = k,
                                  !.l.refreshTokens = t.l.refreshTokens \ {k}],
             s |-> q.s]
    [] t.pc = "cascadeRefresh" ->
         [t |-> deleteTokenNextRefresh([t EXCEPT !.l.cur = <<>>], t.l.refreshTokens),
          s |-> removeMappingByValueQuery(S, t.l.cur)]
    [] t.pc = "getAccountTokens" ->
         LET tokens == getMappingInternal(S, TRUE, "account_tokens", t.l.token.sub)
         IN [t |-> IF tokens # {}
                   THEN [t EXCEPT !.pc = "putAccountTokens", !.l.tokens = tokens]
                   ELSE deleteTokenAfterAccount(t),
             s |-> S]
    [] t.pc = "putAccountTokens" ->
         LET newTokens == FilterOut(TheOne(t.l.tokens), t.a.tokenId)
         IN [t |-> deleteTokenAfterAccount([t EXCEPT !.l.tokens = {}]),
             s |-> IF newTokens # <<>>
                   THEN putMappingInternal(S, TOKENS, "account_tokens", t.l.token.sub,
                                           Arr(newTokens))
                   ELSE removeMappingInternal(S, FALSE, "account_tokens", t.l.token.sub).s]
    [] t.pc = "getDeviceTokens" ->
         \* the source reads "account_tokens" under the device id here
         LET deviceTokens == getMappingInternal(S, TRUE, "account_tokens", t.l.token.deviceId)
         IN [t |-> IF deviceTokens # {}
                   THEN [t EXCEPT !.pc = "putDeviceTokens", !.l.tokens = deviceTokens]
                   ELSE Goto(t, "removeTokenDevice"),
             s |-> S]
    [] t.pc = "putDeviceTokens" ->
         LET newTokens == FilterOut(TheOne(t.l.tokens), t.a.tokenId)
         IN [t |-> [t EXCEPT !.pc = "removeTokenDevice", !.l.tokens = {}],
             s |-> IF newTokens # <<>>
                   THEN putMappingInternal(S, TOKENS, "device_tokens", t.l.token.deviceId,
                                           Arr(newTokens))
                   ELSE removeMappingInternal(S, FALSE, "device_tokens", t.l.token.deviceId).s]
    [] t.pc = "removeTokenDevice" ->
         [t |-> Finish(t, {}),
          s |-> removeMappingInternal(S, FALSE, "token_device", t.a.tokenId).s]


rotateTokenCall(tokenId, newTokenId, newRefreshToken, newData) ==
  [op |-> "rotateToken", pc |-> "remove",
   a |-> [tokenId |-> tokenId, newTokenId |-> newTokenId,
          newRefreshToken |-> newRefreshToken, newData |-> newData],
   l |-> [token |-> [sub |-> <<>>], deviceId |-> <<>>, tokens |-> {}],
   res |-> {}, err |-> FALSE]

rotateTokenStep(t, S) ==
  CASE t.pc = "remove" ->
         LET q == removeQuery(S, PrefixKey(TOKENS, t.a.tokenId))
         IN IF q.rows = {} THEN [t |-> Finish(t, {}), s |-> q.s]
            ELSE [t |-> [t EXCEPT !.pc = "cascade",
                                  !.l.token = fromJson(rowToRecord(TheOne(q.rows)).value).obj],
                  s |-> q.s]
    [] t.pc = "cascade" ->
         [t |-> Goto(t, "put"),
          s |-> removeMappingByValueQuery(S, PrefixKey(TOKENS, t.a.tokenId))]
    [] t.pc = "put" ->
         LET merged == merge(t.l.token, t.a.newData)
         IN [t |-> [t EXCEPT !.pc = "removeTokenDevice", !.l.token = merged],
             s |-> putInternal(S, TOKENS, t.a.newTokenId, Obj(merged),
                               Field(t.a.newData, "expiresAt"))]
    [] t.pc = "removeTokenDevice" ->
         LET x == removeMappingInternal(S, FALSE, "token_device", t.a.tokenId)
         IN [t |-> IF x.r # {} /\ TheOne(x.r) # <<>>
                   THEN [t EXCEPT !.pc = "getDeviceTokens", !.l.deviceId = TheOne(x.r)]
                   ELSE Goto(t, "getAccountTokens"),
             s |-> x.s]
    [] t.pc = "getDeviceTokens" ->
         [t |-> [t EXCEPT !.pc = "putDeviceTokens",
                          !.l.tokens = getMappingInternal(S, TRUE, "device_tokens", t.l.deviceId)],
          s |-> S]
    [] t.pc = "putDeviceTokens" ->
         [t |-> [t EXCEPT !.pc = "getAccountTokens", !.l.tokens = {}],
          s |-> putMappingInternal(S, TOKENS, "device_tokens", t.l.deviceId,
                                   Appended(t.l.tokens, t.a.newTokenId))]
    [] t.pc = "getAccountTokens" ->
         [t |-> [t EXCEPT !.pc = "putAccountTokens",
                          !.l.tokens = getMappingInternal(S, TRUE, "account_tokens", t.l.token.sub)],
          s |-> S]
    [] t.pc = "putAccountTokens" ->
         \* newTokens always holds newTokenId, so the removeMapping branch is dead
         LET newTokens == IF t.l.tokens # {}
                          THEN FilterOut(TheOne(t.l.tokens), t.a.tokenId) \o <<t.a.newTokenId>>
                          ELSE <<t.a.newTokenId>>
         IN [t |-> [t EXCEPT !.pc = "putRefresh", !.l.tokens = {}],
             s |-> putMappingInternal(S, TOKENS, "account_tokens", t.l.token.sub,
                                      Arr(newTokens))]
    [] t.pc = "putRefresh" ->
         [t |-> Finish(t, {}),
          s |-> putMappingInternal(S, TOKENS, "refresh_token", t.a.newRefreshToken,
                                   Text(t.a.newTokenId))]

(* AccountStore *)

\* accountManager.getAccount(handle): the account row, or null
accountManagerGetAccount(A, handleOrDid) ==
  {h \in A : h = subToHandle(handleOrDid)}

getAuthorizedClients(S, sub) ==
  LET ids == getMappingInternal(S, TRUE, "sub_clients", sub)
      found == IF ids = {} THEN {}
               ELSE {c \in SeqSet(TheOne(ids)) :
                       getInternal(S, PrefixKey(AUTHORIZED_CLIENTS, c)) # {}}
  IN [c \in found |->
        fromJson(TheOne(getInternal(S, PrefixKey(AUTHORIZED_CLIENTS, c))).value).obj]

\* assert(account): raises when the handle has no account row
getAccount(S, A, sub) ==
  LET account == accountManagerGetAccount(A, subToHandle(sub))
  IN IF account = {} THEN [err |-> TRUE, r |-> {}]
     ELSE [err |-> FALSE,
           r |-> {[account |-> toAccount(TheOne(account)),
                   authorizedClients |-> getAuthorizedClients(S, sub)]}]

(* TokenStore reads.  Each returns [err |-> it raised, r |-> its result]. *)

TokenInfo(tokenId, token, account, currentRefreshToken) ==
  [id |-> tokenId, data |-> token, account |-> account,
   currentRefreshToken |-> currentRefreshToken]

readToken(S, A, tokenId) ==
  LET tokenData == getInternal(S, PrefixKey(TOKENS, tokenId))
  IN IF tokenData = {} THEN [err |-> FALSE, r |-> {}]
     ELSE LET token == fromJson(TheOne(tokenData).value).obj
              account == getAccount(S, A, token.sub)
          IN IF account.err THEN [err |-> TRUE, r |-> {}]
             ELSE [err |-> FALSE,
                   r |-> {TokenInfo(tokenId, token, TheOne(account.r).account, <<>>)}]

findTokenByRefreshToken(S, A, refreshToken) ==
  LET tokenId == getMappingInternal(S, FALSE, "refresh_token", refreshToken)
  IN IF tokenId = {} \/ TheOne(tokenId) = <<>> THEN [err |-> FALSE, r |-> {}]
     ELSE LET tokenData == getInternal(S, PrefixKey(TOKENS, TheOne(tokenId)))
          IN IF tokenData = {} THEN [err |-> FALSE, r |-> {}]
             ELSE LET token == fromJson(TheOne(tokenData).value).obj
                      account == getAccount(S, A, token.sub)
                  IN IF account.err THEN [err |-> TRUE, r |-> {}]
                     ELSE [err |-> FALSE,
                           r |-> {TokenInfo(TheOne(tokenId), token,
                                            TheOne(account.r).account, refreshToken)}]

\* function notImplemented(): never { ...; throw error }
notImplemented == [err |-> TRUE, r |-> {}]

findTokenByCode(S, A, code) == notImplemented

RECURSIVE NonNullPrefix(_)
\* Variant: the list is cut at the first null.
NonNullPrefix(reads) ==
  IF reads = <<>> THEN <<>>
  ELSE IF Head(reads).r = {} THEN <<>>
  ELSE <<TheOne(Head(reads).r)>> \o NonNullPrefix(Tail(reads))

RECURSIVE NonNull(_)
\* tokens.filter((token) => token !== null), on the list of readToken results
NonNull(reads) ==
  IF reads = <<>> THEN <<>>
  ELSE IF Head(reads).r = {} THEN NonNull(Tail(reads))
  ELSE <<TheOne(Head(reads).r)>> \o NonNull(Tail(reads))

listAccountTokens(S, A, sub) ==
  LET accountTokens == getMappingInternal(S, TRUE, "account_tokens", sub)
  IN IF accountTokens = {} THEN [err |-> FALSE, r |-> <<>>]
     ELSE LET ids == TheOne(accountTokens)
              reads == [i \in DOMAIN ids |-> readToken(S, A, ids[i])]
          IN IF \E i \in DOMAIN reads : reads[i].err THEN [err |-> TRUE, r |-> <<>>]
             ELSE [err |-> FALSE, r |-> NonNull(reads)]


(* RequestStore *)

\* { expiresAt, ...data }
WithoutField(rec, f) == [x \in (DOMAIN rec) \ {f} |-> rec[x]]

createRequestCall(requestId, data) ==
  [op |-> "createRequest", pc |-> "transaction",
   a |-> [requestId |-> requestId, data |-> data],
   l |-> [x |-> {}], res |-> {}, err |-> FALSE]

\* the body of the transaction, applied as one unit
createRequestStep(t, S) ==
  LET data == WithoutField(t.a.data, "expiresAt")
      s1 == putInternal(S, REQUESTS, t.a.requestId, Obj(data), Field(t.a.data, "expiresAt"))
      s2 == IF Field(data, "code") # <<>>
            THEN putMappingInternal(s1, REQUESTS, "authorization_code_requests",
                                    data.code, Text(t.a.requestId))
            ELSE s1
      s3 == IF Field(data, "deviceId") # <<>>
            THEN putMappingInternal(s2, REQUESTS, "device_requests",
                                    data.deviceId, Text(t.a.requestId))
            ELSE s2
  IN [t |-> Finish(t, {}), s |-> s3]

\* Variant: the writes of a body that raised are kept.
transactionKeep(S, out) == out

\* db.transaction().execute(body): the writes of the body are committed when
\* it returns and rolled back when it raises; the error goes to the caller.
transaction(S, out) ==
  IF out.err THEN [s |-> S, err |-> TRUE] ELSE out

\* createRequest whose body raises after `ran` of its operations have run:
\* the put of the request row (1), then the code mapping (2).
createRequestRaising(t, S, ran) ==
  LET data == WithoutField(t.a.data, "expiresAt")
      s1 == putInternal(S, REQUESTS, t.a.requestId, Obj(data), Field(t.a.data, "expiresAt"))
      s2 == IF Field(data, "code") # <<>>
            THEN putMappingInternal(s1, REQUESTS, "authorization_code_requests",
                                    data.code, Text(t.a.requestId))
            ELSE s1
  IN [t |-> Raise(t),
      s |-> transaction(S, [s |-> IF ran = 1 THEN s1 ELSE s2, err |-> TRUE]).s]

readRequest(S, requestId) ==
  {fromJson(record.value).obj : record \in getInternal(S, PrefixKey(REQUESTS, requestId))}

updateRequestCall(requestId, data) ==
  [op |-> "updateRequest", pc |-> "transaction",
   a |-> [requestId |-> requestId, data |-> data],
   l |-> [x |-> {}], res |-> {}, err |-> FALSE]

updateRequestStep(t, S) ==
  LET data == t.a.data
      existing == getInternal(S, PrefixKey(REQUESTS, t.a.requestId))
      existingData == {fromJson(e.value).obj : e \in existing}
      newData == IF existing # {} THEN merge(TheOne(existingData), data) ELSE data
      s1 == putInternal(S, REQUESTS, t.a.requestId, Obj(newData), <<>>)
      s2 == IF Field(data, "code") # <<>>
            THEN putMappingInternal(s1, REQUESTS, "authorization_code_requests",
                                    data.code, Text(t.a.requestId))
            ELSE s1
      old == IF existingData # {} THEN TheOne(existingData) ELSE [x \in {} |-> <<>>]
      s3 == IF /\ Field(old, "deviceId") # <<>>
               /\ Field(data, "deviceId") # Field(old, "deviceId")
            THEN removeMappingInternal(s2, FALSE, "device_requests", old.deviceId).s
            ELSE s2
      s4 == IF /\ Field(old, "code") # <<>>
               /\ Field(data, "code") # Field(old, "code")
            THEN removeMappingInternal(s3, FALSE, "authorization_code_requests", old.code).s
            ELSE s3
      s5 == IF Field(data, "deviceId") # <<>>
            THEN putMappingInternal(s4, REQUESTS, "device_requests",
                                    data.deviceId, Text(t.a.requestId))
            ELSE s4
  IN [t |-> Finish(t, {}), s |-> s5]

deleteRequestCall(requestId) ==
  [op |-> "deleteRequest", pc |-> "remove",
   a |-> [requestId |-> requestId],
   l |-> [x |-> {}], res |-> {}, err |-> FALSE]

deleteRequestStep(t, S) ==
  CASE t.pc = "remove" ->
         LET q == removeQuery(S, PrefixKey(REQUESTS, t.a.requestId))
         IN [t |-> IF q.rows = {} THEN Finish(t, {}) ELSE Goto(t, "cascade"), s |-> q.s]
    [] t.pc = "cascade" ->
         [t |-> Finish(t, {}),
          s |-> removeMappingByValueQuery(S, PrefixKey(REQUESTS, t.a.requestId))]

consumeRequestCodeCall(code) ==
  [op |-> "consumeRequestCode", pc |-> "removeMapping",
   a |-> [code |-> code],
   l |-> [requestId |-> <<>>, request |-> {}], res |-> {}, err |-> FALSE]

consumeRequestCodeStep(t, S) ==
  CASE t.pc = "removeMapping" ->
         LET x == removeMappingInternal(S, FALSE, "authorization_code_requests", t.a.code)
         IN [t |-> IF x.r = {} \/ TheOne(x.r) = <<>> THEN Finish(t, {})
                   ELSE [t EXCEPT !.pc = "remove", !.l.requestId = TheOne(x.r)],
             s |-> x.s]
    [] t.pc = "remove" ->
         LET q == removeQuery(S, PrefixKey(REQUESTS, t.l.requestId))
         IN [t |-> IF q.rows = {} THEN Finish(t, {})
                   ELSE [t EXCEPT !.pc = "cascade",
                                  !.l.request = {rowToRecord(row) : row \in q.rows}],
             s |-> q.s]
    [] t.pc = "cascade" ->
         [t |-> Finish(t, {[requestId |-> t.l.requestId,
                            data |-> fromJson(TheOne(t.l.request).value).obj]}),
          s |-> removeMappingByValueQuery(S, PrefixKey(REQUESTS, t.l.requestId))]

(* DeviceStore *)

createDeviceCall(deviceId, data) ==
  [op |-> "createDevice", pc |-> "put",
   a |-> [deviceId |-> deviceId, data |-> data],
   l |-> [x |-> {}], res |-> {}, err |-> FALSE]

createDeviceStep(t, S) ==
  [t |-> Finish(t, {}), s |-> putInternal(S, DEVICES, t.a.deviceId, Obj(t.a.data), <<>>)]

readDevice(S, deviceId) ==
  {fromJson(record.value).obj : record \in getInternal(S, PrefixKey(DEVICES, deviceId))}

deleteDeviceCall(deviceId) ==
  [op |-> "deleteDevice", pc |-> "remove",
   a |-> [deviceId |-> deviceId],
   l |-> [x |-> {}], res |-> {}, err |-> FALSE]

deleteDeviceStep(t, S) ==
  CASE t.pc = "remove" ->
         LET q == removeQuery(S, PrefixKey(DEVICES, t.a.deviceId))
         IN [t |-> IF q.rows = {} THEN Finish(t, {}) ELSE Goto(t, "cascade"), s |-> q.s]
    [] t.pc = "cascade" ->
         [t |-> Finish(t, {}),
          s |-> removeMappingByValueQuery(S, PrefixKey(DEVICES, t.a.deviceId))]


(* Device accounts *)

\* Variant: the list is kept as it is, repeated elements included.
DedupeNot(list) == list

RECURSIVE Dedupe(_)
\* Array.from(new Set(list)): first occurrences, in order
Dedupe(list) ==
  IF list = <<>> THEN <<>>
  ELSE LET init == Dedupe(SubSeq(list, 1, Len(list) - 1))
           x == list[Len(list)]
       IN IF x \in SeqSet(init) THEN init ELSE init \o <<x>>

setAuthorizedClientCall(sub, clientId, data) ==
  [op |-> "setAuthorizedClient", pc |-> "put",
   a |-> [sub |-> sub, clientId |-> clientId, data |-> data],
   l |-> [existingClients |-> {}], res |-> {}, err |-> FALSE]

setAuthorizedClientStep(t, S) ==
  CASE t.pc = "put" ->
         [t |-> Goto(t, "getSubClients"),
          s |-> putInternal(S, AUTHORIZED_CLIENTS, t.a.clientId, Obj(t.a.data), <<>>)]
    [] t.pc = "getSubClients" ->
         [t |-> [t EXCEPT !.pc = "putSubClients",
                          !.l.existingClients =
                            getMappingInternal(S, TRUE, "sub_clients", t.a.sub)],
          s |-> S]
    [] t.pc = "putSubClients" ->
         [t |-> Finish(t, {}),
          s |-> putMappingInternal(S, AUTHORIZED_CLIENTS, "sub_clients", t.a.sub,
                  IF t.l.existingClients # {}
                  THEN Arr(Dedupe(TheOne(t.l.existingClients) \o <<t.a.clientId>>))
                  ELSE Arr(<<t.a.clientId>>))]

RECURSIVE setAuthorizedClientRun(_)
setAuthorizedClientRun(n) ==
  IF n.t.pc = "done" THEN n ELSE setAuthorizedClientRun(setAuthorizedClientStep(n.t, n.s))

upsertDeviceAccountCall(deviceId, sub) ==
  [op |-> "upsertDeviceAccount", pc |-> "transaction",
   a |-> [deviceId |-> deviceId, sub |-> sub],
   l |-> [x |-> {}], res |-> {}, err |-> FALSE]

\* Variant: the read and the writes of the body are two steps, with the
\* queries of other calls between them.
upsertDeviceAccountStepSplit(t, S) ==
  IF t.pc = "transaction"
  THEN [t |-> [t EXCEPT !.pc = "write",
                        !.l.x = getInternal(S, PrefixKey(ACCOUNT_DEVICES, t.a.deviceId))],
        s |-> S]
  ELSE [t |-> Finish(t, {}),
        s |-> IF t.l.x # {}
              THEN putInternal(S, ACCOUNT_DEVICES, t.a.deviceId,
                               Arr(Dedupe(fromJson(TheOne(t.l.x).value).arr \o <<t.a.sub>>)),
                               <<>>)
              ELSE putInternal(S, ACCOUNT_DEVICES, t.a.deviceId, Arr(<<t.a.sub>>), <<>>)]

upsertDeviceAccountStep(t, S) ==
  LET existing == getInternal(S, PrefixKey(ACCOUNT_DEVICES, t.a.deviceId))
  IN IF existing # {}
     THEN LET accts == Dedupe(fromJson(TheOne(existing).value).arr \o <<t.a.sub>>)
              s1 == putInternal(S, ACCOUNT_DEVICES, t.a.deviceId, Arr(accts), <<>>)
              \* getMultiMapping("sub_devices") is called without a key
              existingDevices == getMappingInternal(s1, TRUE, "sub_devices", <<>>)
          IN [t |-> Finish(t, {}),
              s |-> putMappingInternal(s1, ACCOUNT_DEVICES, "sub_devices", t.a.sub,
                                       Appended(existingDevices, t.a.deviceId))]
     ELSE [t |-> Finish(t, {}),
           s |-> putInternal(S, ACCOUNT_DEVICES, t.a.deviceId, Arr(<<t.a.sub>>), <<>>)]

\* Variant: the resolved account's own subject is not compared with sub.
getDeviceAccountUnchecked(S, A, deviceId, sub, now) ==
  LET deviceData == readDevice(S, deviceId)
      deviceAccounts == getInternal(S, PrefixKey(ACCOUNT_DEVICES, deviceId))
      account == getAccount(S, A, sub)
      deviceAccountIds == IF deviceAccounts # {}
                          THEN fromJson(TheOne(deviceAccounts).value).arr
                          ELSE <<>>
  IN IF account.err THEN [err |-> TRUE, r |-> {}]
     ELSE IF deviceData = {} THEN [err |-> FALSE, r |-> {}]
     ELSE IF sub \notin SeqSet(deviceAccountIds) THEN [err |-> FALSE, r |-> {}]
     ELSE [err |-> FALSE,
           r |-> {[account |-> TheOne(account.r).account,
                   deviceId |-> deviceId,
                   deviceData |-> TheOne(deviceData),
                   authorizedClients |-> TheOne(account.r).authorizedClients,
                   createdAt |-> now, updatedAt |-> now]}]

\* The three reads are awaited before any test; getAccount raises first when
\* sub has no account.  now is the wall clock of the two new Date().
getDeviceAccount(S, A, deviceId, sub, now) ==
  LET deviceData == readDevice(S, deviceId)
      deviceAccounts == getInternal(S, PrefixKey(ACCOUNT_DEVICES, deviceId))
      account == getAccount(S, A, sub)
      deviceAccountIds == IF deviceAccounts # {}
                          THEN fromJson(TheOne(deviceAccounts).value).arr
                          ELSE <<>>
  IN IF account.err THEN [err |-> TRUE, r |-> {}]
     ELSE IF deviceData = {} THEN [err |-> FALSE, r |-> {}]
     ELSE IF \/ sub \notin SeqSet(deviceAccountIds)
             \/ TheOne(account.r).account.sub # sub
          THEN [err |-> FALSE, r |-> {}]
     ELSE [err |-> FALSE,
           r |-> {[account |->
                     [TheOne(account.r).account EXCEPT
                        !.sub = IF StartsWith(@, DID_WEB_PREFIX)
                                THEN sub ELSE DID_WEB_PREFIX \o @],
                   deviceId |-> deviceId,
                   deviceData |-> TheOne(deviceData),
                   authorizedClients |-> TheOne(account.r).authorizedClients,
                   createdAt |-> now, updatedAt |-> now]}]

\* One element of Promise.all(tokens.map(async (tokenId) => ...)) in
\* removeDeviceAccount: deleteToken(tokenId), then a second scan for the
\* refresh tokens of tokenId.
removeDeviceAccountChild(tokenId) ==
  [deleteTokenCall(tokenId) EXCEPT !.op = "removeDeviceAccountChild"]

ChildNextRefresh(t, keys) ==
  IF keys = {} THEN Finish([t EXCEPT !.l.refreshTokens = {}], {})
  ELSE [t EXCEPT !.pc = "removeRefresh2", !.l.refreshTokens = keys]

removeDeviceAccountChildStep(t, S) ==
  CASE t.pc = "like2" ->
         [t |-> ChildNextRefresh(
                  t, {r.key : r \in getLikeQuery(S, "refresh_token", t.a.tokenId)}),
          s |-> S]
    [] t.pc = "removeRefresh2" ->
         LET k == CHOOSE x \in t.l.refreshTokens : TRUE
             q == removeQuery(S, k)
         IN [t |-> IF q.rows = {}
                   THEN ChildNextRefresh(t, t.l.refreshTokens \ {k})
                   ELSE [t EXCEPT !.pc = "cascadeRefresh2", !.l.cur = k,
                                  !.l.refreshTokens = t.l.refreshTokens \ {k}],
             s |-> q.s]
    [] t.pc = "cascadeRefresh2" ->
         [t |-> ChildNextRefresh([t EXCEPT !.l.cur = <<>>], t.l.refreshTokens),
          s |-> removeMappingByValueQuery(S, t.l.cur)]
    [] OTHER ->
         LET n == deleteTokenStep(t, S)
         IN IF n.t.pc = "done" THEN [t |-> Goto(n.t, "like2"), s |-> n.s] ELSE n

removeDeviceAccountCall(deviceId, sub) ==
  [op |-> "removeDeviceAccount", pc |-> "remove",
   a |-> [deviceId |-> deviceId, sub |-> sub],
   l |-> [kids |-> <<>>, pre |-> {}], res |-> {}, err |-> FALSE]

\* The queries before Promise.all; at pc "kids" the children run.
removeDeviceAccountStep(t, S) ==
  CASE t.pc = "remove" ->
         LET q == removeQuery(S, PrefixKey(ACCOUNT_DEVICES, t.a.deviceId))
         IN [t |-> Goto(t, IF q.rows = {} THEN "removeSubDevices" ELSE "cascade"),
             s |-> q.s]
    [] t.pc = "cascade" ->
         [t |-> Goto(t, "removeSubDevices"),
          s |-> removeMappingByValueQuery(S, PrefixKey(ACCOUNT_DEVICES, t.a.deviceId))]
    [] t.pc = "removeSubDevices" ->
         [t |-> Goto(t, "removeDeviceTokens"),
          s |-> removeMappingInternal(S, TRUE, "sub_devices", t.a.sub).s]
    [] t.pc = "removeDeviceTokens" ->
         LET x == removeMappingInternal(S, TRUE, "device_tokens", t.a.deviceId)
         IN [t |-> IF x.r = {} \/ TheOne(x.r) = <<>> THEN Finish(t, {})
                   ELSE [t EXCEPT !.pc = "kids",
                                  !.l.kids = [i \in DOMAIN TheOne(x.r) |->
                                                removeDeviceAccountChild(TheOne(x.r)[i])]],
             s |-> x.s]

\* One query of child i; the call returns when every child has.
removeDeviceAccountKidStep(t, S, i) ==
  LET n == removeDeviceAccountChildStep(t.l.kids[i], S)
      kids == [t.l.kids EXCEPT ![i] = n.t]
  IN [t |-> IF \A j \in DOMAIN kids : kids[j].pc = "done"
            THEN Finish([t EXCEPT !.l.kids = kids], {})
            ELSE [t EXCEPT !.l.kids = kids],
      s |-> n.s]

(* Account creation: accountManager.createAccount inserts the account row. *)
createAccountCall(handle) ==
  [op |-> "createAccount", pc |-> "insert",
   a |-> [handle |-> handle],
   l |-> [x |-> {}], res |-> {}, err |-> FALSE]

(* ------------------------- running the calls -------------------------- *)

\* A call and the table it starts from.
Begin(c, S) == [t |-> c, s |-> S]

\* A call running with no other call between its queries, to its return.
RECURSIVE createTokenRun(_)
createTokenRun(n) ==
  IF n.t.pc = "done" THEN n ELSE createTokenRun(createTokenStep(n.t, n.s))

RECURSIVE deleteTokenRun(_)
deleteTokenRun(n) ==
  IF n.t.pc = "done" THEN n ELSE deleteTokenRun(deleteTokenStep(n.t, n.s))

RECURSIVE rotateTokenRun(_)
rotateTokenRun(n) ==
  IF n.t.pc = "done" THEN n ELSE rotateTokenRun(rotateTokenStep(n.t, n.s))

RECURSIVE deleteRequestRun(_)
deleteRequestRun(n) ==
  IF n.t.pc = "done" THEN n ELSE deleteRequestRun(deleteRequestStep(n.t, n.s))

RECURSIVE consumeRequestCodeRun(_)
consumeRequestCodeRun(n) ==
  IF n.t.pc = "done" THEN n
  ELSE consumeRequestCodeRun(consumeRequestCodeStep(n.t, n.s))

RECURSIVE deleteDeviceRun(_)
deleteDeviceRun(n) ==
  IF n.t.pc = "done" THEN n ELSE deleteDeviceRun(deleteDeviceStep(n.t, n.s))

\* removeDeviceAccount up to Promise.all (pc "kids"), or to its return.
RECURSIVE removeDeviceAccountRun(_)
removeDeviceAccountRun(n) ==
  IF n.t.pc \in {"done", "kids"} THEN n
  ELSE removeDeviceAccountRun(removeDeviceAccountStep(n.t, n.s))


(* --------------------------- the state machine ------------------------ *)

MaxTasks == 2

Slots == 1..MaxTasks

Init ==
  /\ store = {}
  /\ accounts = {}
  /\ tasks = [i \in Slots |-> Idle]
  /\ last = [op |-> "init"]
  /\ nops = 0

\* No call is in flight.
Quiet == \A i \in Slots : tasks[i] = Idle

\* What a returned call leaves for the properties: its arguments, its result
\* and the table it started from.
Returned(t, pre) == [op |-> t.op, a |-> t.a, res |-> t.res, err |-> t.err, pre |-> pre]

\* A call made while no other call is in flight runs to its return.
Do(out) ==
  /\ store' = out.s
  /\ last' = Returned(out.t, store)
  /\ nops' = nops + 1
  /\ UNCHANGED <<accounts, tasks>>

\* A call that runs concurrently with the calls in the other slots.
Start(i, c) ==
  /\ tasks[i] = Idle
  /\ \A j \in Slots : j < i => tasks[j] # Idle
  /\ nops < MaxOps
  /\ tasks' = [tasks EXCEPT ![i] = c]
  /\ nops' = nops + 1
  /\ UNCHANGED <<store, accounts, last>>

\* The inputs.
Handles == {<<"alice">>}
Subs == {<<"alice">>, <<"bob">>}
TokenIds == {<<"t1">>, <<"t2">>, <<"t1", "0">>}
RefreshTokens == {<<"r1">>, <<"r2">>}
Codes == {<<"c1">>, <<"c2">>}
DeviceIds == {<<"d1">>, <<"d2">>}
RequestIds == {<<"q1">>, <<"q2">>}
\* 9 and 10 differ in their first digit: the ISO strings order them by it.
Times == (0..MaxTime) \cup {9, 10}
Opt(set) == set \cup {<<>>}

TokenData(sub, deviceId, code) ==
  [sub |-> sub, deviceId |-> deviceId, code |-> code,
   scope |-> <<"s1">>, expiresAt |-> DateOf(1)]

NewTokenData == {[scope |-> <<"s2">>, expiresAt |-> DateOf(2)]}

CreateAccount ==
  \E h \in Handles :
    /\ Quiet
    /\ nops < MaxOps
    /\ h \notin accounts
    /\ accounts' = accounts \cup {h}
    /\ last' = Returned(Finish(createAccountCall(h), {}), store)
    /\ nops' = nops + 1
    /\ UNCHANGED <<store, tasks>>

(* Token store, sequential *)

CreateToken ==
  \E id \in TokenIds, sub \in Subs, r \in Opt({<<"r1">>}) :
    /\ Quiet /\ nops < MaxOps
    /\ Do(createTokenRun(Begin(createTokenCall(id, TokenData(sub, <<>>, <<>>), r), store)))

DeleteToken ==
  \E id \in TokenIds :
    /\ Quiet /\ nops < MaxOps
    /\ Do(deleteTokenRun(Begin(deleteTokenCall(id), store)))

RotateToken ==
  \E id \in TokenIds, new \in TokenIds, r \in {<<"r2">>}, d \in NewTokenData :
    /\ Quiet /\ nops < MaxOps
    /\ Do(rotateTokenRun(Begin(rotateTokenCall(id, new, r, d), store)))

NextTokens == CreateAccount \/ CreateToken \/ DeleteToken \/ RotateToken

SpecTokens == Init /\ [][NextTokens]_vars


(* Request store, sequential *)

NoFields == [x \in {} |-> <<>>]

\* A field that is present only when it has a value.
OptField(f, v) == IF v = <<>> THEN NoFields ELSE [x \in {f} |-> v]

RequestData(code, deviceId, expiresAt) ==
  merge(merge([parameters |-> <<"p1">>, expiresAt |-> expiresAt],
              OptField("code", code)),
        OptField("deviceId", deviceId))

UpdateRequestData(parameters, code, deviceId) ==
  merge(merge(OptField("parameters", parameters), OptField("code", code)),
        OptField("deviceId", deviceId))

CreateRequest ==
  \E id \in RequestIds, c \in Opt(Codes), d \in Opt({<<"d1">>}) :
    /\ Quiet /\ nops < MaxRequestOps
    /\ Do(createRequestStep(createRequestCall(id, RequestData(c, d, DateOf(1))), store))

UpdateRequest ==
  \E id \in RequestIds, c \in Opt(Codes), d \in Opt({<<"d2">>}) :
    /\ Quiet /\ nops < MaxRequestOps
    /\ Do(updateRequestStep(updateRequestCall(id, UpdateRequestData(<<"p2">>, c, d)), store))

DeleteRequest ==
  \E id \in RequestIds :
    /\ Quiet /\ nops < MaxRequestOps
    /\ Do(deleteRequestRun(Begin(deleteRequestCall(id), store)))

ConsumeRequestCode ==
  \E c \in Codes :
    /\ Quiet /\ nops < MaxRequestOps
    /\ Do(consumeRequestCodeRun(Begin(consumeRequestCodeCall(c), store)))

NextRequests == CreateRequest \/ UpdateRequest \/ DeleteRequest \/ ConsumeRequestCode

SpecRequests == Init /\ [][NextRequests]_vars

(* Request store: a transaction body that raises *)

CreateRequestRaises ==
  \E id \in RequestIds, c \in Opt(Codes), d \in Opt({<<"d1">>}), ran \in 1..2 :
    /\ Quiet /\ nops < MaxRequestOps
    /\ Do(createRequestRaising(createRequestCall(id, RequestData(c, d, DateOf(1))),
                               store, ran))

NextAbort == CreateRequest \/ UpdateRequest \/ CreateRequestRaises

SpecAbort == Init /\ [][NextAbort]_vars

(* Request store: concurrent consumeRequestCode calls *)

\* One query of the call in slot i.
Stepped(i, n) ==
  /\ store' = n.s
  /\ tasks' = [tasks EXCEPT ![i] = n.t]
  /\ UNCHANGED <<accounts, last, nops>>

SetUpRequest ==
  \E id \in RequestIds, c \in Opt(Codes) :
    /\ Quiet /\ nops < MaxRequestOps
    /\ Do(createRequestStep(createRequestCall(id, RequestData(c, <<>>, DateOf(1))), store))

StartConsume ==
  \E i \in Slots, c \in Codes :
    Start(i, consumeRequestCodeCall(c))

StepConsume ==
  \E i \in Slots :
    /\ tasks[i].op = "consumeRequestCode"
    /\ tasks[i].pc # "done"
    /\ Stepped(i, consumeRequestCodeStep(tasks[i], store))

NextConsume == SetUpRequest \/ StartConsume \/ StepConsume

SpecConsume == Init /\ [][NextConsume]_vars

(* Token store: rotateToken running concurrently *)

SetUpAccount == CreateAccount

SetUpToken ==
  \E id \in {<<"t1">>, <<"t2">>}, sub \in {<<"alice">>}, r \in Opt({<<"r1">>}) :
    /\ Quiet /\ nops < MaxOps
    /\ Do(createTokenRun(Begin(createTokenCall(id, TokenData(sub, <<>>, <<>>), r), store)))

StartRotate ==
  \E i \in Slots, id \in {<<"t1">>, <<"t2">>}, new \in {<<"t1", "0">>},
     r \in {<<"r2">>}, d \in NewTokenData :
    Start(i, rotateTokenCall(id, new, r, d))

StepRotate ==
  \E i \in Slots :
    /\ tasks[i].op = "rotateToken"
    /\ tasks[i].pc # "done"
    /\ Stepped(i, rotateTokenStep(tasks[i], store))

NextRotate == SetUpAccount \/ SetUpToken \/ StartRotate \/ StepRotate

SpecRotate == Init /\ [][NextRotate]_vars

(* Token store: createToken running concurrently *)

StartCreate ==
  \E i \in Slots, id \in {<<"t1">>, <<"t2">>}, r \in Opt({<<"r1">>}) :
    Start(i, createTokenCall(id, TokenData(<<"alice">>, <<>>, <<>>), r))

StepCreate ==
  \E i \in Slots :
    /\ tasks[i].op = "createToken"
    /\ tasks[i].pc # "done"
    /\ Stepped(i, createTokenStep(tasks[i], store))

NextCreate == SetUpAccount \/ StartCreate \/ StepCreate

SpecCreate == Init /\ [][NextCreate]_vars

(* Token store: rotations of tokens that exist and of tokens that do not *)

NextRotations == SetUpToken \/ RotateToken \/ DeleteToken

SpecRotations == Init /\ [][NextRotations]_vars

(* The row store by itself: one SimpleKV of type "tokens" *)

KVKeys == {<<"k1">>, <<"k2">>}

KVTargets == {Text(<<"k1">>), Text(PrefixKey(TOKENS, <<"k1">>)), Arr(<<<<"k1">>>>)}

KVCall(op, a) == [op |-> op, pc |-> "done", a |-> a, l |-> [x |-> {}], res |-> {}, err |-> FALSE]

KVDone(op, a, res, S) ==
  /\ store' = S
  /\ last' = Returned(Finish(KVCall(op, a), res), store)
  /\ nops' = nops + 1
  /\ UNCHANGED <<accounts, tasks>>

\* A payload with a plain field, and one with a Date in it.
KVValues == {[v |-> <<"x">>], [v |-> DateOf(1)]}

KVPut ==
  \E k \in KVKeys, v \in KVValues, e \in Opt({DateOf(t) : t \in Times}) :
    /\ Quiet /\ nops < MaxKVOps
    /\ KVDone("put", [key |-> k, value |-> v, expiresAt |-> e], {},
              putInternal(store, TOKENS, k, Obj(v), e))

KVGet ==
  \E k \in KVKeys :
    /\ Quiet /\ nops < MaxKVOps
    /\ KVDone("get", [key |-> k], getInternal(store, PrefixKey(TOKENS, k)), store)

KVPutMapping ==
  \E k \in {<<"r1">>, <<"r2">>}, target \in KVTargets :
    /\ Quiet /\ nops < MaxKVOps
    /\ KVDone("putMapping", [key |-> k, target |-> target], {},
              putMappingInternal(store, TOKENS, "refresh_token", k, target))

KVRemove ==
  \E k \in KVKeys :
    /\ Quiet /\ nops < MaxKVOps
    /\ LET x == removeInternal(store, TOKENS, k, TRUE)
       IN KVDone("remove", [key |-> k, addPrefix |-> TRUE], x.r, x.s)

KVRemoveExpired ==
  \E t \in Times :
    /\ Quiet /\ nops < MaxKVOps
    /\ KVDone("removeExpired", [expiry |-> DateOf(t)], {},
              removeExpiredInternal(store, DateOf(t)))

NextKV == KVPut \/ KVGet \/ KVPutMapping \/ KVRemove \/ KVRemoveExpired

SpecKV == Init /\ [][NextKV]_vars

(* Devices and the tokens bound to them *)

BindToken ==
  \E id \in {<<"t1">>, <<"t2">>}, d \in DeviceIds, c \in Opt({<<"c1">>}),
     r \in Opt({<<"r1">>}) :
    /\ Quiet /\ nops < MaxDeviceOps
    /\ Do(createTokenRun(Begin(createTokenCall(id, TokenData(<<"alice">>, d, c), r), store)))

CreateDevice ==
  \E d \in DeviceIds :
    /\ Quiet /\ nops < MaxDeviceOps
    /\ Do(createDeviceStep(createDeviceCall(d, [userAgent |-> <<"ua">>]), store))

DeleteDevice ==
  \E d \in DeviceIds :
    /\ Quiet /\ nops < MaxDeviceOps
    /\ Do(deleteDeviceRun(Begin(deleteDeviceCall(d), store)))

UpsertDeviceAccount ==
  \E d \in DeviceIds :
    /\ Quiet /\ nops < MaxDeviceOps
    /\ Do(upsertDeviceAccountStep(upsertDeviceAccountCall(d, <<"alice">>), store))

\* The call runs its own queries up to Promise.all; its children then take
\* their queries in any order.
Began(out, pre) ==
  /\ store' = out.s
  /\ IF out.t.pc = "done"
     THEN /\ last' = Returned(out.t, pre)
          /\ tasks' = [tasks EXCEPT ![1] = Idle]
     ELSE /\ last' = [op |-> "running"]
          /\ tasks' = [tasks EXCEPT ![1] = out.t]

RemoveDeviceAccount ==
  \E d \in DeviceIds :
    /\ Quiet /\ nops < MaxDeviceOps
    /\ Began(removeDeviceAccountRun(
               Begin([removeDeviceAccountCall(d, <<"alice">>) EXCEPT !.l.pre = store],
                     store)),
             store)
    /\ nops' = nops + 1
    /\ UNCHANGED accounts

KidsOf(t) == IF t.op = "removeDeviceAccount" THEN DOMAIN t.l.kids ELSE {}

RemoveDeviceAccountChild ==
  \E i \in KidsOf(tasks[1]) :
    /\ tasks[1].l.kids[i].pc # "done"
    /\ Began(removeDeviceAccountKidStep(tasks[1], store, i), tasks[1].l.pre)
    /\ UNCHANGED <<accounts, nops>>

NextDevices ==
  \/ CreateAccount
  \/ BindToken
  \/ CreateDevice
  \/ DeleteDevice
  \/ UpsertDeviceAccount
  \/ RemoveDeviceAccount
  \/ RemoveDeviceAccountChild

SpecDevices == Init /\ [][NextDevices]_vars

(* Token store: rotations of tokens bound to devices *)

NextBoundRotations == CreateAccount \/ BindToken \/ RotateToken

SpecBoundRotations == Init /\ [][NextBoundRotations]_vars

(* Token store: deletions of tokens bound to devices *)

NextBoundDeletes == BindToken \/ DeleteToken

SpecBoundDeletes == Init /\ [][NextBoundDeletes]_vars

(* Reads and the unimplemented verbs, between calls that write *)

MaxReadOps == 4

ReadSubs == {<<"alice">>, DID_WEB_PREFIX \o <<"alice">>, <<"bob">>}

IssueToken ==
  \E id \in {<<"t1">>, <<"t2">>}, sub \in ReadSubs :
    /\ Quiet /\ nops < MaxReadOps
    /\ Do(createTokenRun(Begin(createTokenCall(id, TokenData(sub, <<>>, <<"c1">>), <<"r1">>),
                               store)))

RevokeToken ==
  \E id \in {<<"t1">>, <<"t2">>} :
    /\ Quiet /\ nops < MaxReadOps
    /\ Do(deleteTokenRun(Begin(deleteTokenCall(id), store)))

RegisterDevice ==
  \E d \in DeviceIds :
    /\ Quiet /\ nops < MaxReadOps
    /\ Do(createDeviceStep(createDeviceCall(d, [userAgent |-> <<"ua">>]), store))

UpsertDeviceAccountOf ==
  \E d \in DeviceIds, sub \in ReadSubs :
    /\ Quiet /\ nops < MaxReadOps
    /\ Do(upsertDeviceAccountStep(upsertDeviceAccountCall(d, sub), store))

\* A call that writes nothing: it returns out.r or raises.
Read(op, a, out) ==
  /\ last' = [op |-> op, a |-> a, res |-> out.r, err |-> out.err, pre |-> store]
  /\ UNCHANGED <<store, accounts, tasks, nops>>

ReadToken ==
  \E id \in {<<"t1">>, <<"t2">>} :
    /\ Quiet
    /\ Read("readToken", [tokenId |-> id], readToken(store, accounts, id))

FindTokenByRefreshToken ==
  \E r \in RefreshTokens :
    /\ Quiet
    /\ Read("findTokenByRefreshToken", [refreshToken |-> r],
            findTokenByRefreshToken(store, accounts, r))

FindTokenByCode ==
  \E c \in Codes :
    /\ Quiet
    /\ Read("findTokenByCode", [code |-> c], findTokenByCode(store, accounts, c))

ListAccountTokens ==
  \E sub \in ReadSubs :
    /\ Quiet
    /\ Read("listAccountTokens", [sub |-> sub], listAccountTokens(store, accounts, sub))

ReadRequest ==
  \E q \in RequestIds :
    /\ Quiet
    /\ Read("readRequest", [requestId |-> q], [err |-> FALSE, r |-> readRequest(store, q)])

ReadDevice ==
  \E d \in DeviceIds :
    /\ Quiet
    /\ Read("readDevice", [deviceId |-> d], [err |-> FALSE, r |-> readDevice(store, d)])

GetDeviceAccount ==
  \E d \in DeviceIds, sub \in ReadSubs :
    /\ Quiet
    /\ Read("getDeviceAccount", [deviceId |-> d, sub |-> sub],
            getDeviceAccount(store, accounts, d, sub, DateOf(0)))

ResetPasswordRequest ==
  /\ Quiet
  /\ Read("resetPasswordRequest", [data |-> <<"alice">>], notImplemented)

ResetPasswordConfirm ==
  /\ Quiet
  /\ Read("resetPasswordConfirm", [data |-> <<"alice">>], notImplemented)

\* return null
FindLexicon ==
  /\ Quiet
  /\ Read("findLexicon", [nsid |-> <<"n1">>], [err |-> FALSE, r |-> {}])

\* return
StoreLexicon ==
  /\ Quiet
  /\ Read("storeLexicon", [nsid |-> <<"n1">>, data |-> <<"x">>], [err |-> FALSE, r |-> {}])

\* return
DeleteLexicon ==
  /\ Quiet
  /\ Read("deleteLexicon", [nsid |-> <<"n1">>], [err |-> FALSE, r |-> {}])

NextReads ==
  \/ CreateAccount
  \/ IssueToken
  \/ RevokeToken
  \/ ReadToken
  \/ FindTokenByRefreshToken
  \/ FindTokenByCode
  \/ ListAccountTokens
  \/ ReadRequest
  \/ ResetPasswordRequest
  \/ ResetPasswordConfirm
  \/ FindLexicon
  \/ StoreLexicon
  \/ DeleteLexicon

SpecReads == Init /\ [][NextReads]_vars

NextDeviceReads ==
  \/ CreateAccount
  \/ RegisterDevice
  \/ UpsertDeviceAccountOf
  \/ ReadDevice
  \/ GetDeviceAccount

SpecDeviceReads == Init /\ [][NextDeviceReads]_vars

(* Authorized clients, sequential *)

ClientIds == {<<"app1">>, <<"app2">>}

\* AuthorizedClientData: { authorizedScopes }
ClientData == {[authorizedScopes |-> <<"s1">>], [authorizedScopes |-> <<"s2">>]}

SetAuthorizedClient ==
  \E sub \in ReadSubs, c \in ClientIds, data \in ClientData :
    /\ Quiet /\ nops < MaxReadOps
    /\ Do(setAuthorizedClientRun(Begin(setAuthorizedClientCall(sub, c, data), store)))

GetAuthorizedClients ==
  \E sub \in ReadSubs :
    /\ Quiet
    /\ Read("getAuthorizedClients", [sub |-> sub],
            [err |-> FALSE, r |-> {getAuthorizedClients(store, sub)}])

NextClients == SetAuthorizedClient \/ GetAuthorizedClients

SpecClients == Init /\ [][NextClients]_vars

(* Token store: token ids issued to more than one account *)

OwnerHandles == {<<"alice">>, <<"bob">>}

SignUp ==
  \E h \in OwnerHandles :
    /\ Quiet /\ nops < MaxReadOps
    /\ h \notin accounts
    /\ accounts' = accounts \cup {h}
    /\ last' = Returned(Finish(createAccountCall(h), {}), store)
    /\ nops' = nops + 1
    /\ UNCHANGED <<store, tasks>>

GrantToken ==
  \E id \in {<<"t1">>, <<"t2">>}, h \in OwnerHandles :
    /\ Quiet /\ nops < MaxReadOps
    /\ Do(createTokenRun(Begin(createTokenCall(id, TokenData(toAccount(h).sub, <<>>, <<>>),
                                               <<>>), store)))

ListTokensOf ==
  \E h \in OwnerHandles :
    /\ Quiet
    /\ Read("listAccountTokens", [sub |-> toAccount(h).sub],
            listAccountTokens(store, accounts, toAccount(h).sub))

NextOwners == SignUp \/ GrantToken \/ RevokeToken \/ ListTokensOf

SpecOwners == Init /\ [][NextOwners]_vars

(* Device accounts: a device shared by several accounts *)

BindTokenOf ==
  \E id \in {<<"t1">>}, sub \in Subs, d \in DeviceIds :
    /\ Quiet /\ nops < MaxReadOps
    /\ Do(createTokenRun(Begin(createTokenCall(id, TokenData(sub, d, <<>>), <<>>), store)))

NextSharedDevices ==
  \/ UpsertDeviceAccountOf
  \/ BindTokenOf
  \/ RemoveDeviceAccount
  \/ RemoveDeviceAccountChild

SpecSharedDevices == Init /\ [][NextSharedDevices]_vars

(* Device accounts: upsertDeviceAccount running concurrently *)

StartUpsert ==
  \E i \in Slots, d \in DeviceIds, sub \in ReadSubs :
    Start(i, upsertDeviceAccountCall(d, sub))

\* The transaction of a call: its body runs on the one connection of the
\* database, which the transaction holds from BEGIN to COMMIT.
CommitUpsert ==
  \E i \in Slots :
    /\ tasks[i].op = "upsertDeviceAccount"
    /\ tasks[i].pc # "done"
    /\ Stepped(i, upsertDeviceAccountStep(tasks[i], store))

NextUpserts == StartUpsert \/ CommitUpsert

SpecUpserts == Init /\ [][NextUpserts]_vars

(* db/cast.ts by itself: a value encoded, then the encoding decoded *)

\* Strings (one of them with the shape isoDateRegex accepts), null and Dates.
CastLeaves == {<<"x">>, <<"0", "1", "Z">>, <<>>} \cup {DateOf(t) : t \in 0..MaxTime}

CastValues ==
  {Obj([a |-> x, b |-> y]) : x \in CastLeaves, y \in CastLeaves}
    \cup {Arr(<<x, y>>) : x \in CastLeaves, y \in CastLeaves}
    \cup {Arr(<<x>>) : x \in CastLeaves}
    \cup {Arr(<<>>)}

ToJson ==
  \E v \in CastValues :
    /\ Quiet
    /\ Read("toJson", [value |-> v], [err |-> FALSE, r |-> toJson(v)])

FromJson ==
  /\ Quiet
  /\ last.op = "toJson"
  /\ Read("fromJson", [jsonStr |-> last.res, value |-> last.a.value],
          [err |-> FALSE, r |-> fromJson(last.res)])

NextCast == ToJson \/ FromJson

SpecCast == Init /\ [][NextCast]_vars

(* Every operation, under any of the schedules above. *)

Next ==
  \/ NextTokens
  \/ NextRequests
  \/ NextAbort
  \/ NextConsume
  \/ NextRotate
  \/ NextCreate
  \/ NextRotations
  \/ NextBoundRotations
  \/ NextBoundDeletes
  \/ NextKV
  \/ NextDevices
  \/ NextReads
  \/ NextDeviceReads
  \/ NextCast
  \/ NextUpserts
  \/ NextClients
  \/ NextOwners
  \/ NextSharedDevices

Spec == Init /\ [][Next]_vars

(* ------------------------------ properties ---------------------------- *)

Ids(infos) == {infos[i].id : i \in DOMAIN infos}

CountId(infos, id) == Cardinality({i \in DOMAIN infos : infos[i].id = id})

HasAccount(sub) == accountManagerGetAccount(accounts, subToHandle(sub)) # {}

\* C3: token rotation.  After rotateToken(old, new, newRefreshToken, patch) on
\* an existing token old (new # old) whose owner sub resolves to an account,
\* readToken(old) returns null, readToken(new) returns the old token data
\* merged with patch, and listAccountTokens(sub) contains new and not old.
C3_Case ==
  /\ last.op = "rotateToken"
  /\ last.a.tokenId # last.a.newTokenId
  /\ readToken(last.pre, accounts, last.a.tokenId).r # {}

C3_TokenRotation ==
  C3_Case =>
    LET old == last.a.tokenId
        new == last.a.newTokenId
        before == TheOne(readToken(last.pre, accounts, old).r).data
        readOld == readToken(store, accounts, old)
        readNew == readToken(store, accounts, new)
        list == listAccountTokens(store, accounts, before.sub)
    IN /\ ~readOld.err /\ readOld.r = {}
       /\ ~readNew.err /\ readNew.r # {}
       /\ TheOne(readNew.r).data = merge(before, last.a.newData)
       /\ ~list.err
       /\ new \in Ids(list.r)
       /\ old \notin Ids(list.r)

C3_Witness ==
  /\ C3_Case
  /\ Ids(listAccountTokens(store, accounts, <<"alice">>).r) = {last.a.newTokenId, <<"t2">>}


\* C7: create/list/delete.  For an existing account sub and a token id t not
\* currently stored, after createToken(t, {sub, ...}) listAccountTokens(sub)
\* contains exactly one entry with id t; after deleteToken(t)
\* listAccountTokens(sub) no longer contains t, and it is the empty list when
\* t was the account's only token.
C7_CreateCase ==
  /\ last.op = "createToken"
  /\ HasAccount(last.a.data.sub)
  /\ getInternal(last.pre, PrefixKey(TOKENS, last.a.tokenId)) = {}

C7_DeleteCase ==
  /\ last.op = "deleteToken"
  /\ readToken(last.pre, accounts, last.a.tokenId).r # {}

C7_CreateListDelete ==
  /\ C7_CreateCase =>
       LET list == listAccountTokens(store, accounts, last.a.data.sub)
       IN ~list.err /\ CountId(list.r, last.a.tokenId) = 1
  /\ C7_DeleteCase =>
       LET sub == TheOne(readToken(last.pre, accounts, last.a.tokenId).r).data.sub
           before == listAccountTokens(last.pre, accounts, sub)
           list == listAccountTokens(store, accounts, sub)
       IN /\ ~list.err
          /\ last.a.tokenId \notin Ids(list.r)
          /\ (~before.err /\ Ids(before.r) = {last.a.tokenId}) => list.r = <<>>


\* The request id the authorization_code_requests mapping holds for a code.
CodeRequest(S, code) == getMappingInternal(S, FALSE, "authorization_code_requests", code)

\* C1: code consumption is exactly-once in a sequential run.  A createRequest
\* or updateRequest with code c registers c for its request; the first
\* consumeRequestCode(c) on a registered code whose request row exists returns
\* that request's id and data and removes the row (readRequest(id) is null
\* afterwards); and from then on, until a createRequest/updateRequest registers
\* c again, c stays unregistered and every consumeRequestCode(c) returns null.
C1_Registers ==
  (last.op \in {"createRequest", "updateRequest"} /\ Field(last.a.data, "code") # <<>>) =>
    /\ CodeRequest(store, last.a.data.code) = {last.a.requestId}
    /\ readRequest(store, last.a.requestId) # {}

C1_FirstCase ==
  /\ last.op = "consumeRequestCode"
  /\ CodeRequest(last.pre, last.a.code) # {}
  /\ readRequest(last.pre, TheOne(CodeRequest(last.pre, last.a.code))) # {}

C1_First ==
  C1_FirstCase =>
    LET id == TheOne(CodeRequest(last.pre, last.a.code))
    IN /\ last.res = {[requestId |-> id, data |-> TheOne(readRequest(last.pre, id))]}
       /\ readRequest(store, id) = {}
       /\ CodeRequest(store, last.a.code) = {}

C1_Later ==
  \A c \in Codes :
    (CodeRequest(store, c) = {} /\ nops' # nops) =>
      /\ (last'.op = "consumeRequestCode" /\ last'.a.code = c) => last'.res = {}
      /\ ~(last'.op \in {"createRequest", "updateRequest"} /\ Field(last'.a.data, "code") = c)
           => CodeRequest(store', c) = {}

RequestMappingsOf(S, id) ==
  {r \in S : /\ \/ StartsWith(r.key, <<"authorization_code_requests", Colon>>)
                \/ StartsWith(r.key, <<"device_requests", Colon>>)
             /\ r.value = Text(id)}

C9_DeleteRequestCascades ==
  last.op = "deleteRequest" => RequestMappingsOf(store, last.a.requestId) = {}


\* C2: of the concurrent consumeRequestCode(c) calls for one code c, each
\* store query being one atomic step, at most one returns the request.
ReturnedRequest(i) ==
  /\ tasks[i].op = "consumeRequestCode"
  /\ tasks[i].pc = "done"
  /\ tasks[i].res # {}

C2_AtMostOneConsumes ==
  \A i \in Slots, j \in Slots :
    (i # j /\ ReturnedRequest(i) /\ ReturnedRequest(j)) =>
      tasks[i].a.code # tasks[j].a.code

C2_Witness ==
  \E i \in Slots, j \in Slots :
    /\ i # j
    /\ ReturnedRequest(i)
    /\ tasks[j].op = "consumeRequestCode"
    /\ tasks[j].a.code = tasks[i].a.code
    /\ tasks[j].pc = "done"
    /\ tasks[j].res = {}

\* C4: rotateToken is atomic for concurrent callers: no state that another
\* call can read has the old token row removed while the new token row, its
\* account_tokens membership or its refresh-token mapping is not yet written.
RotationHalfDone(t) ==
  /\ t.a.tokenId # t.a.newTokenId
  /\ getInternal(store, PrefixKey(TOKENS, t.a.tokenId)) = {}
  /\ \/ getInternal(store, PrefixKey(TOKENS, t.a.newTokenId)) = {}
     \/ getMappingInternal(store, FALSE, "refresh_token", t.a.newRefreshToken)
          # {t.a.newTokenId}
     \/ \A list \in getMappingInternal(store, TRUE, "account_tokens", t.l.token.sub) :
          t.a.newTokenId \notin SeqSet(list)

C4_RotateTokenAtomic ==
  \A i \in Slots :
    (tasks[i].op = "rotateToken" /\ tasks[i].pc \notin {"remove", "done"}) =>
      ~RotationHalfDone(tasks[i])

\* C8: remove(k) deletes the row with key k and returns its prior record, and
\* afterwards no mapping row (type mapping_...) has a value equal to the deleted
\* row's key; when no row with key k exists it returns null and leaves the
\* store unchanged.
IsoTime(iso) == 10 * DigitVal(iso[1]) + DigitVal(iso[2])

C8_Case == last.op = "remove" /\ getQuery(last.pre, PrefixKey(TOKENS, last.a.key)) # {}

C8_Remove ==
  last.op = "remove" =>
    LET key == PrefixKey(TOKENS, last.a.key)
        prior == getQuery(last.pre, key)
    IN IF prior = {} THEN last.res = {} /\ store = last.pre
       ELSE /\ last.res = {[key |-> last.a.key,
                            type |-> TheOne(prior).type,
                            value |-> TheOne(prior).value,
                            expiresAt |-> IF TheOne(prior).expiresAt = <<>> THEN <<>>
                                          ELSE DateOf(IsoTime(TheOne(prior).expiresAt))]}
            /\ getQuery(store, key) = {}
            /\ \A r \in store : ~(IsMappingType(r.type) /\ r.value = Text(key))

C8_Witness ==
  /\ C8_Case
  /\ \E r \in last.pre :
       IsMappingType(r.type) /\ r.value = Text(PrefixKey(TOKENS, last.a.key))
  /\ \E r \in store : IsMappingType(r.type)

\* C10: removeExpired(t) deletes exactly the rows whose expiresAt is non-null
\* and strictly earlier than t; every other row is left unchanged.
C10_RemoveExpired ==
  last.op = "removeExpired" =>
    store = {r \in last.pre :
               r.expiresAt = <<>> \/ IsoTime(r.expiresAt) >= TimeOf(last.a.expiry)}

C10_Witness ==
  /\ last.op = "removeExpired"
  /\ store # last.pre
  /\ \E r \in store : r.expiresAt # <<>> /\ IsoTime(r.expiresAt) = TimeOf(last.a.expiry)
  /\ \E r \in store : r.expiresAt = <<>>


\* C5: after removeDeviceAccount(d, sub) completes for a device d with N bound
\* tokens (the ids in device_tokens[d]), all N token rows are gone, no
\* refresh_token or authorization_code mapping row points at any of them, and
\* listAccountTokens of every owner lists none of them.
BoundTokens(S, deviceId) ==
  UNION {SeqSet(list) : list \in getMappingInternal(S, TRUE, "device_tokens", deviceId)}

PointsAt(S, relation, tokenId) ==
  {r \in S : /\ r.type = MappingType(TOKENS, relation)
             /\ r.value = Text(tokenId)}

C5_DeviceRemovalCascades ==
  last.op = "removeDeviceAccount" =>
    \A t \in BoundTokens(last.pre, last.a.deviceId) :
      /\ getInternal(store, PrefixKey(TOKENS, t)) = {}
      /\ PointsAt(store, "refresh_token", t) = {}
      /\ PointsAt(store, "authorization_code", t) = {}
      /\ \A sub \in Subs :
           HasAccount(sub) => t \notin Ids(listAccountTokens(store, accounts, sub).r)

\* C6: after deleteDevice(d) completes, every token that was created with
\* deviceId d is deleted (readToken returns null for it) together with its
\* refresh-token and code mappings.
TokensOfDevice(S, deviceId) ==
  {t \in TokenIds :
     \E record \in getInternal(S, PrefixKey(TOKENS, t)) :
       Field(fromJson(record.value).obj, "deviceId") = deviceId}

C6_DeleteDeviceCascades ==
  last.op = "deleteDevice" =>
    \A t \in TokensOfDevice(last.pre, last.a.deviceId) :
      /\ getInternal(store, PrefixKey(TOKENS, t)) = {}
      /\ PointsAt(store, "refresh_token", t) = {}
      /\ PointsAt(store, "authorization_code", t) = {}


\* C11: put(k, v, e) followed by get(k), with no write to k in between,
\* returns a record whose value is the encoding of v and whose expiry is e
\* (null when e is omitted), replacing any earlier row with that key; get has
\* no side effect and still returns the row when e lies in the past.
C11_PutThenGet ==
  /\ last.op = "put" =>
       LET key == PrefixKey(TOKENS, last.a.key)
           got == getInternal(store, key)
       IN /\ Cardinality(getQuery(store, key)) = 1
          /\ Cardinality(got) = 1
          /\ fromJson(TheOne(got).value).obj = last.a.value
          /\ TheOne(got).expiresAt = last.a.expiresAt
          /\ {r \in store : r.key # key} = {r \in last.pre : r.key # key}
  /\ last.op = "get" =>
       /\ store = last.pre
       /\ (last.res = {}) = (getQuery(store, PrefixKey(TOKENS, last.a.key)) = {})

C11_Witness ==
  /\ last.op = "put"
  /\ last.a.expiresAt = DateOf(0)
  /\ IsDate(last.a.value.v)
  /\ \E r \in getQuery(last.pre, PrefixKey(TOKENS, last.a.key)) :
       r.expiresAt # toDateISO(last.a.expiresAt) /\ r.value # toJson(Obj(last.a.value))


\* C12: a transaction is all-or-nothing on error.  When the body of
\* createRequest raises after its put, or after its put and its code mapping,
\* the error reaches the caller and the store is the one before the call.
C12_TransactionAborts ==
  (last.op = "createRequest" /\ last.err) => store = last.pre

C12_Witness ==
  /\ last.op = "createRequest"
  /\ last.err
  /\ store # {}
  /\ readRequest(store, last.a.requestId) = {}
  /\ Field(last.a.data, "code") # <<>>
  /\ CodeRequest(store, last.a.data.code) = {}


\* C13: the lost update of account_tokens.  Once concurrent createToken calls
\* for one sub have all returned, every token row exists and the list holds
\* only ids of these calls and at least one of them; there is an interleaving
\* of two calls with distinct ids after which the list holds only one of the
\* two ids and listAccountTokens(sub) omits a live token (C13_LostUpdate).
CreatesReturned ==
  /\ \E i \in Slots : tasks[i].op = "createToken"
  /\ \A i \in Slots : tasks[i].op = "createToken" => tasks[i].pc = "done"

AccountTokens(S, sub) ==
  UNION {SeqSet(list) : list \in getMappingInternal(S, TRUE, "account_tokens", sub)}

C13_LastWriterWins ==
  CreatesReturned =>
    /\ \A i \in Slots :
         tasks[i].op = "createToken" =>
           getInternal(store, PrefixKey(TOKENS, tasks[i].a.tokenId)) # {}
    /\ \E i \in Slots :
         /\ tasks[i].op = "createToken"
         /\ tasks[i].a.tokenId \in AccountTokens(store, <<"alice">>)
    /\ AccountTokens(store, <<"alice">>) \subseteq
         {tasks[i].a.tokenId : i \in {j \in Slots : tasks[j].op = "createToken"}}

C13_LostUpdate ==
  /\ CreatesReturned
  /\ HasAccount(<<"alice">>)
  /\ \E i \in Slots, j \in Slots :
       /\ tasks[i].op = "createToken" /\ tasks[j].op = "createToken"
       /\ tasks[i].a.tokenId # tasks[j].a.tokenId
       /\ readToken(store, accounts, tasks[i].a.tokenId).r # {}
       /\ readToken(store, accounts, tasks[j].a.tokenId).r # {}
       /\ AccountTokens(store, <<"alice">>) = {tasks[j].a.tokenId}
       /\ Ids(listAccountTokens(store, accounts, <<"alice">>).r) = {tasks[j].a.tokenId}


\* The owner recorded in the token row id, when the row exists.
OwnerOf(S, id) == {fromJson(row.value).obj.sub : row \in getInternal(S, PrefixKey(TOKENS, id))}

\* C14: findTokenByCode(code) resolves a token through the authorization_code
\* mapping: it returns the token info for the id registered under code when
\* the token's owner has an account, and null when no token is registered
\* under code; it does not raise in either case.
C14_FindTokenByCode ==
  last.op = "findTokenByCode" =>
    LET registered == getMappingInternal(store, FALSE, "authorization_code", last.a.code)
    IN /\ registered = {} => (~last.err /\ last.res = {})
       /\ \A id \in registered :
            (\E sub \in OwnerOf(store, id) : HasAccount(sub)) =>
              (~last.err /\ \E info \in last.res : info.id = id)

\* C15: findTokenByRefreshToken(r), when the refresh_token mapping of r and
\* the token row it names exist, returns the token with currentRefreshToken = r
\* if the owner has an account, and returns null without raising if not.
C15_FindTokenByRefreshToken ==
  last.op = "findTokenByRefreshToken" =>
    \A id \in getMappingInternal(store, FALSE, "refresh_token", last.a.refreshToken) :
      \A sub \in OwnerOf(store, id) :
        /\ ~last.err
        /\ IF HasAccount(sub)
           THEN \E info \in last.res :
                  info.id = id /\ info.currentRefreshToken = last.a.refreshToken
           ELSE last.res = {}

\* What the read that has just returned looked up is absent.
C16_Absent ==
  \/ /\ last.op = "readToken"
     /\ \A sub \in OwnerOf(store, last.a.tokenId) : ~HasAccount(sub)
  \/ /\ last.op = "readRequest"
     /\ getInternal(store, PrefixKey(REQUESTS, last.a.requestId)) = {}
  \/ /\ last.op = "readDevice"
     /\ getInternal(store, PrefixKey(DEVICES, last.a.deviceId)) = {}
  \/ /\ last.op = "findTokenByRefreshToken"
     /\ \A id \in getMappingInternal(store, FALSE, "refresh_token", last.a.refreshToken) :
          \A sub \in OwnerOf(store, id) : ~HasAccount(sub)
  \/ /\ last.op = "getDeviceAccount"
     /\ \/ getInternal(store, PrefixKey(DEVICES, last.a.deviceId)) = {}
        \/ ~HasAccount(last.a.sub)

\* C16: read misses are null, never an error.  readToken, readRequest,
\* readDevice, findTokenByRefreshToken and getDeviceAccount return null without
\* raising when the token, request, device or refresh token is unknown or
\* the sub has no account.
C16_ReadMissesAreNull ==
  C16_Absent => (~last.err /\ last.res = {})

\* C17: listAccountTokens(sub) does not raise because of a listed id whose
\* row is gone.  When it raises, some listed id has a row whose owner has no
\* account; when it returns, it returns exactly the listed ids whose rows exist.
LiveIds(sub) ==
  {id \in AccountTokens(store, sub) : getInternal(store, PrefixKey(TOKENS, id)) # {}}

C17_ListFilters ==
  last.op = "listAccountTokens" =>
    IF last.err
    THEN \E id \in LiveIds(last.a.sub) : \A sub \in OwnerOf(store, id) : ~HasAccount(sub)
    ELSE Ids(last.res) = LiveIds(last.a.sub)

C17_Witness ==
  /\ last.op = "listAccountTokens"
  /\ ~last.err
  /\ AccountTokens(store, last.a.sub) \ LiveIds(last.a.sub) # {}
  /\ LiveIds(last.a.sub) # {}
  /\ Ids(last.res) = LiveIds(last.a.sub)

\* C18: getDeviceAccount(d, sub) returns a non-null result only when the
\* account set stored for d contains sub and the subject of the account
\* resolved for sub equals sub; otherwise, when it returns, it returns null.
StoredAccounts(d) ==
  UNION {SeqSet(fromJson(record.value).arr) :
           record \in getInternal(store, PrefixKey(ACCOUNT_DEVICES, d))}

C18_DoubleCheck ==
  (last.op = "getDeviceAccount" /\ ~last.err /\ last.res # {}) =>
    /\ last.a.sub \in StoredAccounts(last.a.deviceId)
    /\ \E h \in accountManagerGetAccount(accounts, subToHandle(last.a.sub)) :
         DID_WEB_PREFIX \o h = last.a.sub

C18_Witness ==
  /\ last.op = "getDeviceAccount"
  /\ ~last.err
  /\ last.res # {}
  /\ last.a.sub \in StoredAccounts(last.a.deviceId)

\* C19: rotateToken(old, new, newRefreshToken, patch) when no row old exists
\* raises nothing and leaves the whole table as it was: no row new and no
\* refresh_token mapping of newRefreshToken appears.
C19_Case ==
  /\ last.op = "rotateToken"
  /\ getInternal(last.pre, PrefixKey(TOKENS, last.a.tokenId)) = {}

C19_RotateMissingNoOp ==
  C19_Case =>
    /\ ~last.err
    /\ store = last.pre
    /\ getInternal(last.pre, PrefixKey(TOKENS, last.a.newTokenId)) = {}
         => getInternal(store, PrefixKey(TOKENS, last.a.newTokenId)) = {}
    /\ getMappingInternal(last.pre, FALSE, "refresh_token", last.a.newRefreshToken) = {}
         => getMappingInternal(store, FALSE, "refresh_token", last.a.newRefreshToken) = {}

C19_Witness ==
  /\ C19_Case
  /\ ~last.err
  /\ last.pre # {}
  /\ store = last.pre
  /\ getInternal(store, PrefixKey(TOKENS, last.a.newTokenId)) = {}

\* C20: every unimplemented verb (findTokenByCode, resetPasswordRequest,
\* resetPasswordConfirm, findLexicon, storeLexicon, deleteLexicon) raises and
\* leaves the table unchanged; none returns as if it had succeeded.
UnimplementedVerbs ==
  {"findTokenByCode", "resetPasswordRequest", "resetPasswordConfirm",
   "findLexicon", "storeLexicon", "deleteLexicon"}

C20_StubsRaise ==
  last.op \in UnimplementedVerbs => (last.err /\ store = last.pre)


\* C21: encoding round-trips.  For every encodable value v, fromJson(toJson(v))
\* equals v, each field keeping its kind: a date stays a date and a string,
\* also one with the ISO-8601 millisecond UTC shape, stays a string.
C21_RoundTrip ==
  last.op = "fromJson" => last.res = last.a.value


\* The ids listed in the multi-valued mapping type under key.
Listed(S, type, key) ==
  UNION {SeqSet(list) : list \in getMappingInternal(S, TRUE, type, key)}

\* C22: createToken(id, data, refreshToken) registers every index.  Afterwards
\* account_tokens[data.sub] contains id; with a deviceId, device_tokens[deviceId]
\* contains id and token_device[id] = deviceId; with a refreshToken,
\* refresh_token[refreshToken] = id and findTokenByRefreshToken(refreshToken)
\* returns token id; with a code, authorization_code[code] = id.  The ids
\* already in account_tokens and device_tokens are preserved.
C22_Indexes ==
  /\ last.a.tokenId \in Listed(store, "account_tokens", last.a.data.sub)
  /\ Listed(last.pre, "account_tokens", last.a.data.sub)
       \subseteq Listed(store, "account_tokens", last.a.data.sub)
  /\ last.a.data.deviceId # <<>> =>
       /\ last.a.tokenId \in Listed(store, "device_tokens", last.a.data.deviceId)
       /\ Listed(last.pre, "device_tokens", last.a.data.deviceId)
            \subseteq Listed(store, "device_tokens", last.a.data.deviceId)
       /\ getMappingInternal(store, FALSE, "token_device", last.a.tokenId)
            = {last.a.data.deviceId}
  /\ last.a.refreshToken # <<>> =>
       getMappingInternal(store, FALSE, "refresh_token", last.a.refreshToken)
         = {last.a.tokenId}
  /\ last.a.data.code # <<>> =>
       getMappingInternal(store, FALSE, "authorization_code", last.a.data.code)
         = {last.a.tokenId}

C22_Finds ==
  last.a.refreshToken # <<>> =>
    /\ ~findTokenByRefreshToken(store, accounts, last.a.refreshToken).err
    /\ \E info \in findTokenByRefreshToken(store, accounts, last.a.refreshToken).r :
         info.id = last.a.tokenId

C22_CreateTokenRegisters ==
  last.op = "createToken" => (C22_Indexes /\ C22_Finds)

\* The same, for the calls whose data.sub has an account: this one holds.
C22_WithAccount ==
  (last.op = "createToken" /\ HasAccount(last.a.data.sub)) => (C22_Indexes /\ C22_Finds)


\* A rotateToken(old, new, ...) has returned, new # old, and the row old existed.
RotatedExisting ==
  /\ last.op = "rotateToken"
  /\ last.a.tokenId # last.a.newTokenId
  /\ getInternal(last.pre, PrefixKey(TOKENS, last.a.tokenId)) # {}

\* C23: rotateToken relocates the device binding.  For a token old bound to
\* device d (token_device[old] = d), after rotateToken(old, new, ...)
\* token_device[new] = d, token_device has no entry for old, and
\* device_tokens[d] contains new and not old.
C23_DeviceBindingRelocated ==
  RotatedExisting =>
    \A d \in getMappingInternal(last.pre, FALSE, "token_device", last.a.tokenId) :
      /\ getMappingInternal(store, FALSE, "token_device", last.a.newTokenId) = {d}
      /\ getMappingInternal(store, FALSE, "token_device", last.a.tokenId) = {}
      /\ last.a.newTokenId \in Listed(store, "device_tokens", d)
      /\ last.a.tokenId \notin Listed(store, "device_tokens", d)

\* The refresh_token mapping rows of S whose target is id.
RefreshRowsOf(S, id) ==
  {r \in S : /\ r.type = MappingType(TOKENS, "refresh_token")
             /\ r.value = Text(id)}

\* C24: the refresh-token mapping is replaced on rotation.  After
\* rotateToken(old, new, newRefreshToken, patch) on an existing token,
\* findTokenByRefreshToken(newRefreshToken) returns token new and no
\* refresh_token mapping row has old as its target.
C24_Finds ==
  /\ ~findTokenByRefreshToken(store, accounts, last.a.newRefreshToken).err
  /\ \E info \in findTokenByRefreshToken(store, accounts, last.a.newRefreshToken).r :
       info.id = last.a.newTokenId

C24_RefreshMappingReplaced ==
  RotatedExisting => (C24_Finds /\ RefreshRowsOf(store, last.a.tokenId) = {})

\* The part of C24 about the rows, for owners that have an account.
C24_OldRowsGone ==
  (RotatedExisting /\ \A sub \in OwnerOf(last.pre, last.a.tokenId) : HasAccount(sub))
    => RefreshRowsOf(store, last.a.tokenId) = {}


\* A deleteToken(id) has returned and the row id existed.
DeletedExisting ==
  /\ last.op = "deleteToken"
  /\ getInternal(last.pre, PrefixKey(TOKENS, last.a.tokenId)) # {}

\* The token that deleteToken has deleted, as it was stored.
DeletedToken == fromJson(TheOne(getInternal(last.pre, PrefixKey(TOKENS, last.a.tokenId))).value).obj

Without(list, id) == SelectSeq(list, LAMBDA x : x # id)

\* C25: deleteToken(id) on an existing token prunes account_tokens.  Afterwards
\* account_tokens[sub] of the owner is its previous list without id, the other
\* ids in their order, and the mapping row is removed when id was its last member.
C25_AccountTokensPruned ==
  DeletedExisting =>
    \A list \in getMappingInternal(last.pre, TRUE, "account_tokens", DeletedToken.sub) :
      IF Without(list, last.a.tokenId) = <<>>
      THEN getQuery(store, MappingKey("account_tokens", DeletedToken.sub)) = {}
      ELSE getMappingInternal(store, TRUE, "account_tokens", DeletedToken.sub)
             = {Without(list, last.a.tokenId)}

C25_Witness ==
  /\ DeletedExisting
  /\ \E list \in getMappingInternal(last.pre, TRUE, "account_tokens", DeletedToken.sub) :
       /\ last.a.tokenId \in SeqSet(list)
       /\ Without(list, last.a.tokenId) # <<>>
       /\ getMappingInternal(store, TRUE, "account_tokens", DeletedToken.sub)
            = {Without(list, last.a.tokenId)}

\* C26: deleteToken(id) on an existing token bound to device d prunes
\* device_tokens: afterwards device_tokens[d] does not contain id.
C26_DeviceTokensPruned ==
  (DeletedExisting /\ DeletedToken.deviceId # <<>>) =>
    last.a.tokenId \notin Listed(store, "device_tokens", DeletedToken.deviceId)

\* The refresh tokens whose mapping in S names id.
RefreshTokensOf(S, id) ==
  {r \in RefreshTokens : getMappingInternal(S, FALSE, "refresh_token", r) = {id}}

\* C27: deleteToken(id) on an existing token removes every single-valued
\* mapping of the token.  Afterwards the row is gone, authorization_code[code]
\* and token_device[id] are absent, no refresh_token row has id as its target,
\* and findTokenByRefreshToken of a refresh token that named id returns null.
C27_SingleMappingsRemoved ==
  DeletedExisting =>
    /\ getInternal(store, PrefixKey(TOKENS, last.a.tokenId)) = {}
    /\ DeletedToken.code # <<>> =>
         getMappingInternal(store, FALSE, "authorization_code", DeletedToken.code) = {}
    /\ getMappingInternal(store, FALSE, "token_device", last.a.tokenId) = {}
    /\ RefreshRowsOf(store, last.a.tokenId) = {}
    /\ \A r \in RefreshTokensOf(last.pre, last.a.tokenId) :
         findTokenByRefreshToken(store, accounts, r) = [err |-> FALSE, r |-> {}]

C27_Witness ==
  /\ DeletedExisting
  /\ DeletedToken.code # <<>>
  /\ getMappingInternal(last.pre, FALSE, "authorization_code", DeletedToken.code)
       = {last.a.tokenId}
  /\ getMappingInternal(last.pre, FALSE, "token_device", last.a.tokenId) # {}
  /\ RefreshTokensOf(last.pre, last.a.tokenId) # {}
  /\ RefreshRowsOf(store, last.a.tokenId) = {}
  /\ store # {}


Changed(f) ==
  /\ last.op = "updateRequest"
  /\ f \in DOMAIN last.a.data
  /\ \E old \in readRequest(last.pre, last.a.requestId) :
       /\ f \in DOMAIN old
       /\ old[f] # last.a.data[f]

OldValue(f) == TheOne(readRequest(last.pre, last.a.requestId))[f]

\* What consumeRequestCode(code) returns in the table S.
Consumed(S, code) == consumeRequestCodeRun(Begin(consumeRequestCodeCall(code), S)).t.res

\* C29: when updateRequest(id, patch) changes the code from c1 to c2, the c1
\* entry of authorization_code_requests is gone and the c2 entry names id:
\* consumeRequestCode(c1) returns null and consumeRequestCode(c2) returns
\* request id.  Likewise for the deviceId and device_requests.
C29_MappingsFollow ==
  /\ Changed("code") =>
       /\ getMappingInternal(store, FALSE, "authorization_code_requests", OldValue("code")) = {}
       /\ getMappingInternal(store, FALSE, "authorization_code_requests", last.a.data.code)
            = {last.a.requestId}
       /\ Consumed(store, OldValue("code")) = {}
       /\ \E found \in Consumed(store, last.a.data.code) :
            found.requestId = last.a.requestId
  /\ Changed("deviceId") =>
       /\ getMappingInternal(store, FALSE, "device_requests", OldValue("deviceId")) = {}
       /\ getMappingInternal(store, FALSE, "device_requests", last.a.data.deviceId)
            = {last.a.requestId}

C29_Witness ==
  /\ Changed("code")
  /\ Changed("deviceId")
  /\ getMappingInternal(last.pre, FALSE, "authorization_code_requests", OldValue("code"))
       = {last.a.requestId}
  /\ Consumed(store, last.a.data.code) # {}


\* The list stored for device d in the table S (empty when there is no row).
StoredList(S, d) ==
  IF getInternal(S, PrefixKey(ACCOUNT_DEVICES, d)) = {} THEN <<>>
  ELSE fromJson(TheOne(getInternal(S, PrefixKey(ACCOUNT_DEVICES, d))).value).arr

\* C30: the device's account set is a set union.  Each upsertDeviceAccount(d, sub)
\* leaves for d the subs it held before together with sub, each once, and the
\* lists of the other devices as they were; a call whose sub is already in the
\* list does not change it.  From the empty store, the list of d is therefore
\* exactly the subs upsertDeviceAccount(d, sub) was called with.
C30_SetUnion ==
  last.op = "upsertDeviceAccount" =>
    /\ SeqSet(StoredList(store, last.a.deviceId))
         = SeqSet(StoredList(last.pre, last.a.deviceId)) \cup {last.a.sub}
    /\ Cardinality(SeqSet(StoredList(store, last.a.deviceId)))
         = Len(StoredList(store, last.a.deviceId))
    /\ last.a.sub \in SeqSet(StoredList(last.pre, last.a.deviceId)) =>
         StoredList(store, last.a.deviceId) = StoredList(last.pre, last.a.deviceId)
    /\ \A d \in DeviceIds \ {last.a.deviceId} :
         StoredList(store, d) = StoredList(last.pre, d)

C30_Witness ==
  /\ last.op = "upsertDeviceAccount"
  /\ last.a.sub \in SeqSet(StoredList(last.pre, last.a.deviceId))
  /\ Len(StoredList(store, last.a.deviceId)) >= 2
  /\ StoredList(store, last.a.deviceId) = StoredList(last.pre, last.a.deviceId)


\* The list stored in the multi-valued mapping type under key (empty when absent).
ListOf(S, type, key) ==
  IF getMappingInternal(S, TRUE, type, key) = {} THEN <<>>
  ELSE TheOne(getMappingInternal(S, TRUE, type, key))

NoDuplicate(list) == Cardinality(SeqSet(list)) = Len(list)

\* C31: the reverse sub_devices mapping is a set union too.  Each
\* upsertDeviceAccount(d, sub), the first call for a device included, leaves
\* in sub_devices[sub] the devices it held before together with d, each once;
\* from the empty store sub_devices[sub] is therefore exactly the devices
\* upsertDeviceAccount(d, sub) was called with.
C31_SubDevicesUnion ==
  last.op = "upsertDeviceAccount" =>
    /\ Listed(store, "sub_devices", last.a.sub)
         = Listed(last.pre, "sub_devices", last.a.sub) \cup {last.a.deviceId}
    /\ NoDuplicate(ListOf(store, "sub_devices", last.a.sub))


\* The call in slot i is an upsertDeviceAccount that has committed.
Committed(i) == tasks[i].op = "upsertDeviceAccount" /\ tasks[i].pc = "done"

\* C32: concurrent upsertDeviceAccount calls lose no update.  Under every
\* interleaving of upsertDeviceAccount(d, s1) and upsertDeviceAccount(d, s2),
\* once both have committed the list stored for d contains s1 and s2.
C32_NoLostUpsert ==
  \A i \in Slots, j \in Slots :
    (i # j /\ Committed(i) /\ Committed(j) /\ tasks[i].a.deviceId = tasks[j].a.deviceId) =>
      {tasks[i].a.sub, tasks[j].a.sub} \subseteq SeqSet(StoredList(store, tasks[i].a.deviceId))

C32_Witness ==
  \E i \in Slots, j \in Slots :
    /\ Committed(i) /\ Committed(j)
    /\ tasks[i].a.deviceId = tasks[j].a.deviceId
    /\ tasks[i].a.sub # tasks[j].a.sub
    /\ SeqSet(StoredList(store, tasks[i].a.deviceId)) = {tasks[i].a.sub, tasks[j].a.sub}


\* C33: no multi-valued mapping ever holds a duplicate.  In every reachable
\* state each account_tokens, device_tokens, sub_clients and sub_devices list
\* contains every id at most once.
C33_NoDuplicates ==
  /\ \A sub \in ReadSubs :
       /\ NoDuplicate(ListOf(store, "account_tokens", sub))
       /\ NoDuplicate(ListOf(store, "sub_clients", sub))
       /\ NoDuplicate(ListOf(store, "sub_devices", sub))
  /\ \A d \in DeviceIds : NoDuplicate(ListOf(store, "device_tokens", d))


\* C34: authorized clients are per account.  After setAuthorizedClient(sub,
\* clientId, data), getAuthorizedClients(sub) is what it was before with
\* clientId mapped to data, and getAuthorizedClients of every sub of another
\* account is what it was before the call.
C34_ClientsPerAccount ==
  last.op = "setAuthorizedClient" =>
    /\ getAuthorizedClients(store, last.a.sub)
         = [c \in DOMAIN getAuthorizedClients(last.pre, last.a.sub) \cup {last.a.clientId} |->
              IF c = last.a.clientId THEN last.a.data
              ELSE getAuthorizedClients(last.pre, last.a.sub)[c]]
    /\ \A other \in ReadSubs :
         subToHandle(other) # subToHandle(last.a.sub) =>
           getAuthorizedClients(store, other) = getAuthorizedClients(last.pre, other)


\* C35: deleteToken(id) removes only the refresh-token mappings of token id.
\* Every refresh_token mapping whose target is another token id is unchanged
\* by the call, and findTokenByRefreshToken answers for it as before.
C35_OtherRefreshMappingsKept ==
  last.op = "deleteToken" =>
    \A r \in RefreshTokens :
      (/\ getMappingInternal(last.pre, FALSE, "refresh_token", r) # {}
       /\ getMappingInternal(last.pre, FALSE, "refresh_token", r) # {last.a.tokenId}) =>
        /\ getMappingInternal(store, FALSE, "refresh_token", r)
             = getMappingInternal(last.pre, FALSE, "refresh_token", r)
        /\ findTokenByRefreshToken(store, accounts, r)
             = findTokenByRefreshToken(last.pre, accounts, r)


\* updateRequest(id, patch) has returned, the request existed with field f
\* set, and the patch does not mention f.
Unmentioned(f) ==
  /\ last.op = "updateRequest"
  /\ f \notin DOMAIN last.a.data
  /\ \E old \in readRequest(last.pre, last.a.requestId) : f \in DOMAIN old

\* C36: updateRequest(id, patch) with a patch that does not mention code
\* leaves the authorization_code_requests entry of the request's code in
\* place, and consumeRequestCode of that code still returns request id.
\* Likewise for the deviceId and device_requests.
C36_UnmentionedMappingsKept ==
  /\ (/\ Unmentioned("code")
      /\ getMappingInternal(last.pre, FALSE, "authorization_code_requests", OldValue("code"))
           = {last.a.requestId}) =>
       /\ getMappingInternal(store, FALSE, "authorization_code_requests", OldValue("code"))
            = {last.a.requestId}
       /\ \E found \in Consumed(store, OldValue("code")) :
            found.requestId = last.a.requestId
  /\ (/\ Unmentioned("deviceId")
      /\ getMappingInternal(last.pre, FALSE, "device_requests", OldValue("deviceId"))
           = {last.a.requestId}) =>
       getMappingInternal(store, FALSE, "device_requests", OldValue("deviceId"))
         = {last.a.requestId}

\* The rows of request id in the table S.
RequestRows(S, id) == getInternal(S, PrefixKey(REQUESTS, id))

\* C37: updateRequest preserves the request's expiry.  A request row that had
\* expiry e before updateRequest has expiry e after it, and removeExpired(t)
\* with t later than e removes it.
C37_ExpiryKept ==
  last.op = "updateRequest" =>
    \A old \in RequestRows(last.pre, last.a.requestId) :
      old.expiresAt # <<>> =>
        /\ \A new \in RequestRows(store, last.a.requestId) : new.expiresAt = old.expiresAt
        /\ \A t \in 0..MaxTime :
             StrLess(toDateISO(old.expiresAt), toDateISO(DateOf(t))) =>
               RequestRows(removeExpiredInternal(store, DateOf(t)), last.a.requestId) = {}


\* C38: listAccountTokens returns only the account's own tokens.  Every token
\* that listAccountTokens(sub) returns has data.sub equal to sub.
C38_OnlyOwnTokens ==
  (last.op = "listAccountTokens" /\ ~last.err) =>
    \A i \in DOMAIN last.res : last.res[i].data.sub = last.a.sub


\* The ids of the token rows of the table S that sub holds on device d.
TokensOn(S, d, sub) ==
  {id \in TokenIds :
     \E row \in getInternal(S, PrefixKey(TOKENS, id)) :
       /\ fromJson(row.value).obj.sub = sub
       /\ fromJson(row.value).obj.deviceId = d}

\* C39: removeDeviceAccount(d, sub) affects only the association of sub with
\* d.  Every other sub2 that the account set of d contained before the call
\* is still in it afterwards, and the tokens that sub2 held on d still exist.
C39_OtherSubsKept ==
  last.op = "removeDeviceAccount" =>
    \A sub2 \in ReadSubs \ {last.a.sub} :
      sub2 \in SeqSet(StoredList(last.pre, last.a.deviceId)) =>
        /\ sub2 \in SeqSet(StoredList(store, last.a.deviceId))
        /\ TokensOn(last.pre, last.a.deviceId, sub2)
             \subseteq TokensOn(store, last.a.deviceId, sub2)


\* C40: removeDeviceAccount leaves no dangling account_tokens entry.  Under
\* every interleaving of the queries of the deleteToken calls it starts, once
\* removeDeviceAccount(d, sub) has completed no account_tokens list contains
\* the id of a token that was bound to d.
C40_NoDanglingAccountTokens ==
  last.op = "removeDeviceAccount" =>
    \A t \in BoundTokens(last.pre, last.a.deviceId), sub \in Subs :
      t \notin AccountTokens(store, sub)

====
